---- MODULE Spec2Model ----
(***************************************************************************)
(* Brainzy study assistant: the in-memory entity store (MemStorage), the   *)
(* REST routes that call it, the flashcard review scheduler of the         *)
(* flashcards page, and the quiz page.                                     *)
(*                                                                         *)
(* Values.  A text / varchar / jsonb column holds a string, an integer or  *)
(* timestamp column holds an integer (timestamps are Date.getTime()        *)
(* milliseconds); the questions of a generated quiz and the answers of a   *)
(* submitted attempt are sequences.  JavaScript null is `null` in a text   *)
(* column and                                                              *)
(* `nullInt` in an integer or timestamp column; a property that is absent  *)
(* from an object (undefined) is a field name outside the DOMAIN.          *)
(***************************************************************************)
EXTENDS Integers, Sequences, FiniteSets, TLC

\* ------------------------------------------------------------------ bounds
\* Number of randomUUID() calls a behaviour makes (records ever created).
MaxIds == 2
\* Number of clock advances a behaviour makes.
MaxTicks == 1
\* Review scenario: documents uploaded and decks generated, cards the
\* generator returns for one deck, and difficulty ratings given in all.
MaxDecks == 1
MaxCards == 1
MaxRatings == 2
\* PUT requests sent by HTTP clients other than the flashcards page.
MaxRawPuts == 1

\* List scenario: records created before a list is taken.
MaxListed == 4
\* Study scenario: cards of the deck one session studies, and its ratings.
MaxDeck == 2
MaxStudyRatings == 3

\* Route scenario: randomUUID() calls made while documents come and go.
MaxRouteIds == 4
\* Quiz scenario: questions of a generated quiz, options of a question,
\* and attempts the quiz page submits.
MaxQuestions == 3
NumOptions == 2
MaxAttempts == 2
\* The long quiz of the quiz scenario: its questions, and how many of them
\* the taker answers correctly.
LongQuizLength == 40
LongQuizCorrect == 23

\* ------------------------------------------------------------ JS values
null == "null"
nullInt == -1

\* The ids randomUUID() hands out, in the order it hands them out.  A v4
\* UUID is modelled as never repeating; `uuid` counts the calls so far.
UuidPool == <<"id1", "id2", "id3", "id4", "id5", "id6", "id7", "id8", "id9",
              "id10", "id11", "id12", "id13", "id14", "id15", "id16">>
\* An id no create has returned (a request may name any string).
NoSuchId == "id0"

\* { ...a, ...b }
Spread(a, b) ==
  [f \in DOMAIN a \cup DOMAIN b |-> IF f \in DOMAIN b THEN b[f] ELSE a[f]]

\* obj.f || d for a text column: undefined, null and "" are falsy.
OrStr(obj, f, d) ==
  IF f \in DOMAIN obj /\ obj[f] # null /\ obj[f] # "" THEN obj[f] ELSE d

\* obj.f || d for an integer or timestamp column: undefined, null and 0 are falsy.
OrInt(obj, f, d) ==
  IF f \in DOMAIN obj /\ obj[f] # nullInt /\ obj[f] # 0 THEN obj[f] ELSE d

\* Map.prototype.set / delete / get on a Map<string, record>.
MapSet(m, k, v) == [x \in DOMAIN m \cup {k} |-> IF x = k THEN v ELSE m[x]]
MapDelete(m, k) == [x \in DOMAIN m \ {k} |-> m[x]]
EmptyMap == [x \in {} |-> x]

\* A method's result: a record, or undefined.
Found(r) == [found |-> TRUE, value |-> r]
Undefined == [found |-> FALSE, value |-> EmptyMap]
MapGet(m, k) == IF k \in DOMAIN m THEN Found(m[k]) ELSE Undefined

VARIABLES
  users, documents, notes, flashcardSets, flashcards, quizzes, quizAttempts,
  chatMessages,   \* MemStorage's eight maps
  uuid,           \* randomUUID() calls made so far
  now,            \* the wall clock, ms
  ticks,          \* clock advances so far
  issued,         \* the creates so far, oldest first: collection and id returned
  created,        \* id -> record returned by create, until the id is updated or deleted
  lastFound,      \* whether the last update or delete call found its id, or "none"
  lastCall,       \* the method and id of the last update or delete call
  currentSet,     \* per browser session: FlashcardsSection's currentSet (its id), or null
  currentCardIndex,
  showAnswer,
  studyStats,
  currentCards,   \* per session: the cards query's cached data, by set id
  inflight,       \* PUT /api/flashcards/:id requests sent and not yet handled
  rated,          \* difficulty ratings given so far, over all sessions
  rawPuts,        \* PUT requests other HTTP clients have sent so far
  lastStatus,     \* the status of the last PUT /api/flashcards/:id answered, or 0
  reviewsApplied, \* card id -> number of reviews the server has applied to it
  answered,       \* the last generation or chat request answered: route, document id, status
  currentQuiz,    \* QuizSection's currentQuiz (its id), or null
  currentQuestionIndex,
  selectedAnswers,
  showResult,
  quizStartTime,  \* the time startQuiz was called, or null
  attempts,       \* the attempts submitQuizMutation.mutate was called with, oldest first
  posted          \* POST /api/quiz-attempts requests sent and not yet handled

storeVars == <<users, documents, notes, flashcardSets, flashcards, quizzes,
               quizAttempts, chatMessages>>
quizVars == <<currentQuiz, currentQuestionIndex, selectedAnswers, showResult,
              quizStartTime, attempts, posted>>
clientVars == <<currentSet, currentCardIndex, showAnswer, studyStats,
                currentCards, inflight, rated, rawPuts>>
vars == <<users, documents, notes, flashcardSets, flashcards, quizzes,
          quizAttempts, chatMessages, uuid, now, ticks, issued, created, lastFound,
          lastCall,
          currentSet, currentCardIndex, showAnswer, studyStats, currentCards,
          inflight, rated, rawPuts, lastStatus, reviewsApplied,
          answered, currentQuiz, currentQuestionIndex, selectedAnswers,
          showResult, quizStartTime, attempts, posted>>

\* ------------------------------------------------------------ MemStorage
\* crypto.randomUUID(): the next id of the pool.
randomUUID == UuidPool[uuid + 1]

getUser(id) == MapGet(users, id)

createUser(insertUser) ==
  LET id == randomUUID
      user == Spread(insertUser,
                [id |-> id, createdAt |-> now,
                 spotifyAccessToken |-> null, spotifyRefreshToken |-> null])
  IN  [store |-> MapSet(users, id, user), ret |-> user]

\* updateUser storing the merged record under the id the record carries.
updateUser_rekeys(id, updates) ==
  IF id \notin DOMAIN users
  THEN [store |-> users, ret |-> Undefined]
  ELSE LET updatedUser == Spread(users[id], updates)
       IN  [store |-> MapSet(MapDelete(users, id), updatedUser.id, updatedUser),
            ret |-> Found(updatedUser)]

updateUser(id, updates) ==
  IF id \notin DOMAIN users
  THEN [store |-> users, ret |-> Undefined]
  ELSE LET updatedUser == Spread(users[id], updates)
       IN  [store |-> MapSet(users, id, updatedUser), ret |-> Found(updatedUser)]

getDocument(id) == MapGet(documents, id)

\* createDocument numbering its ids by the size of the map.
createDocument_idFromSize(insertDocument) ==
  LET id == UuidPool[Cardinality(DOMAIN documents) + 1]
      document == Spread(insertDocument,
                    [id |-> id, createdAt |-> now,
                     metadata |-> OrStr(insertDocument, "metadata", null),
                     originalUrl |-> OrStr(insertDocument, "originalUrl", null)])
  IN  [store |-> MapSet(documents, id, document), ret |-> document]

createDocument(insertDocument) ==
  LET id == randomUUID
      document == Spread(insertDocument,
                    [id |-> id, createdAt |-> now,
                     metadata |-> OrStr(insertDocument, "metadata", null),
                     originalUrl |-> OrStr(insertDocument, "originalUrl", null)])
  IN  [store |-> MapSet(documents, id, document), ret |-> document]

\* deleteDocument answering true whether or not the id was stored.
deleteDocument_alwaysTrue(id) ==
  [store |-> MapDelete(documents, id), ret |-> TRUE]

deleteDocument(id) ==
  [store |-> MapDelete(documents, id), ret |-> id \in DOMAIN documents]

getNote(id) == MapGet(notes, id)

\* createNote storing the caller's payload instead of the record it built.
createNote_storesPayload(insertNote) ==
  LET id == randomUUID
      note == Spread(insertNote,
                [id |-> id, createdAt |-> now, updatedAt |-> now,
                 documentId |-> OrStr(insertNote, "documentId", null),
                 subject |-> OrStr(insertNote, "subject", null),
                 tags |-> OrStr(insertNote, "tags", null),
                 wordCount |-> OrInt(insertNote, "wordCount", 0)])
  IN  [store |-> MapSet(notes, id, insertNote), ret |-> note]

createNote(insertNote) ==
  LET id == randomUUID
      note == Spread(insertNote,
                [id |-> id, createdAt |-> now, updatedAt |-> now,
                 documentId |-> OrStr(insertNote, "documentId", null),
                 subject |-> OrStr(insertNote, "subject", null),
                 tags |-> OrStr(insertNote, "tags", null),
                 wordCount |-> OrInt(insertNote, "wordCount", 0)])
  IN  [store |-> MapSet(notes, id, note), ret |-> note]

\* updateNote without its `if (!note) return undefined`.
updateNote_upsert(id, updates) ==
  LET note == IF id \in DOMAIN notes THEN notes[id] ELSE EmptyMap
      updatedNote == Spread(Spread(note, updates), [updatedAt |-> now])
  IN  [store |-> MapSet(notes, id, updatedNote), ret |-> Found(updatedNote)]

\* updateNote storing the payload in place of the merged record.
updateNote_replaces(id, updates) ==
  IF id \notin DOMAIN notes
  THEN [store |-> notes, ret |-> Undefined]
  ELSE LET updatedNote == Spread(updates, [updatedAt |-> now])
       IN  [store |-> MapSet(notes, id, updatedNote), ret |-> Found(updatedNote)]

\* updateNote spreading the payload after the new updatedAt.
updateNote_payloadStamp(id, updates) ==
  IF id \notin DOMAIN notes
  THEN [store |-> notes, ret |-> Undefined]
  ELSE LET updatedNote == Spread(Spread(notes[id], [updatedAt |-> now]), updates)
       IN  [store |-> MapSet(notes, id, updatedNote), ret |-> Found(updatedNote)]

updateNote(id, updates) ==
  IF id \notin DOMAIN notes
  THEN [store |-> notes, ret |-> Undefined]
  ELSE LET updatedNote == Spread(Spread(notes[id], updates), [updatedAt |-> now])
       IN  [store |-> MapSet(notes, id, updatedNote), ret |-> Found(updatedNote)]

deleteNote(id) ==
  [store |-> MapDelete(notes, id), ret |-> id \in DOMAIN notes]

getFlashcardSet(id) == MapGet(flashcardSets, id)

\* createFlashcardSet returning the set without storing it.
createFlashcardSet_notStored(insertSet) ==
  LET id == randomUUID
      set == Spread(insertSet,
               [id |-> id, createdAt |-> now,
                documentId |-> OrStr(insertSet, "documentId", null),
                description |-> OrStr(insertSet, "description", null),
                cardCount |-> OrInt(insertSet, "cardCount", 0)])
  IN  [store |-> flashcardSets, ret |-> set]

createFlashcardSet(insertSet) ==
  LET id == randomUUID
      set == Spread(insertSet,
               [id |-> id, createdAt |-> now,
                documentId |-> OrStr(insertSet, "documentId", null),
                description |-> OrStr(insertSet, "description", null),
                cardCount |-> OrInt(insertSet, "cardCount", 0)])
  IN  [store |-> MapSet(flashcardSets, id, set), ret |-> set]

\* createFlashcard defaulting the difficulty to "easy".
NewFlashcard_easyDefault(insertCard, id) ==
  Spread(insertCard,
    [id |-> id,
     difficulty |-> OrStr(insertCard, "difficulty", "easy"),
     lastReviewed |-> OrInt(insertCard, "lastReviewed", nullInt),
     nextReview |-> OrInt(insertCard, "nextReview", nullInt),
     repetitions |-> OrInt(insertCard, "repetitions", 0),
     easinessFactor |-> OrInt(insertCard, "easinessFactor", 250)])

\* createFlashcard's record for a payload and the id randomUUID returned.
NewFlashcard(insertCard, id) ==
  Spread(insertCard,
    [id |-> id,
     difficulty |-> OrStr(insertCard, "difficulty", "medium"),
     lastReviewed |-> OrInt(insertCard, "lastReviewed", nullInt),
     nextReview |-> OrInt(insertCard, "nextReview", nullInt),
     repetitions |-> OrInt(insertCard, "repetitions", 0),
     easinessFactor |-> OrInt(insertCard, "easinessFactor", 250)])

createFlashcard(insertCard) ==
  LET card == NewFlashcard(insertCard, randomUUID)
  IN  [store |-> MapSet(flashcards, card.id, card), ret |-> card]

\* updateFlashcard without its `if (!card) return undefined`.
updateFlashcard_upsert(id, updates) ==
  LET card == IF id \in DOMAIN flashcards THEN flashcards[id] ELSE EmptyMap
      updatedCard == Spread(card, updates)
  IN  [store |-> MapSet(flashcards, id, updatedCard), ret |-> Found(updatedCard)]

\* updateFlashcard storing the payload in place of the merged card.
updateFlashcard_replaces(id, updates) ==
  IF id \notin DOMAIN flashcards
  THEN [store |-> flashcards, ret |-> Undefined]
  ELSE [store |-> MapSet(flashcards, id, updates), ret |-> Found(updates)]

\* updateFlashcard merging the stored card over the payload.
updateFlashcard_keepsOld(id, updates) ==
  IF id \notin DOMAIN flashcards
  THEN [store |-> flashcards, ret |-> Undefined]
  ELSE LET updatedCard == Spread(updates, flashcards[id])
       IN  [store |-> MapSet(flashcards, id, updatedCard), ret |-> Found(updatedCard)]

updateFlashcard(id, updates) ==
  IF id \notin DOMAIN flashcards
  THEN [store |-> flashcards, ret |-> Undefined]
  ELSE LET updatedCard == Spread(flashcards[id], updates)
       IN  [store |-> MapSet(flashcards, id, updatedCard), ret |-> Found(updatedCard)]

getQuiz(id) == MapGet(quizzes, id)

createQuiz(insertQuiz) ==
  LET id == randomUUID
      quiz == Spread(insertQuiz,
                [id |-> id, createdAt |-> now,
                 documentId |-> OrStr(insertQuiz, "documentId", null),
                 description |-> OrStr(insertQuiz, "description", null),
                 timeLimit |-> OrInt(insertQuiz, "timeLimit", nullInt)])
  IN  [store |-> MapSet(quizzes, id, quiz), ret |-> quiz]

createQuizAttempt(insertAttempt) ==
  LET id == randomUUID
      attempt == Spread(insertAttempt,
                   [id |-> id, completedAt |-> now,
                    timeSpent |-> OrInt(insertAttempt, "timeSpent", nullInt)])
  IN  [store |-> MapSet(quizAttempts, id, attempt), ret |-> attempt]

createChatMessage(insertMessage) ==
  LET id == randomUUID
      message == Spread(insertMessage,
                   [id |-> id, createdAt |-> now,
                    documentId |-> OrStr(insertMessage, "documentId", null)])
  IN  [store |-> MapSet(chatMessages, id, message), ret |-> message]

\* Array.from(map.values()).filter(...): the ids of the matching records, in
\* the map's insertion order (the order randomUUID issued them).
RECURSIVE FilterIds(_, _, _, _)
FilterIds(m, f, v, n) ==
  IF n = 0 THEN <<>>
  ELSE LET k == UuidPool[n]
       IN  IF k \in DOMAIN m /\ f \in DOMAIN m[k] /\ m[k][f] = v
           THEN Append(FilterIds(m, f, v, n - 1), k)
           ELSE FilterIds(m, f, v, n - 1)

\* The filter stopping at its first match.
ListBy_firstOnly(m, f, v) ==
  LET ids == FilterIds(m, f, v, uuid)
  IN  [i \in 1..(IF Len(ids) > 0 THEN 1 ELSE 0) |-> m[ids[i]]]

ListBy(m, f, v) ==
  LET ids == FilterIds(m, f, v, uuid)
  IN  [i \in 1..Len(ids) |-> m[ids[i]]]

getDocumentsByUser(userId) == ListBy(documents, "userId", userId)
getNotesByUser(userId) == ListBy(notes, "userId", userId)
getNotesByDocument(documentId) == ListBy(notes, "documentId", documentId)
getFlashcardSetsByUser(userId) == ListBy(flashcardSets, "userId", userId)
getFlashcardsBySet(setId) == ListBy(flashcards, "setId", setId)
getQuizzesByUser(userId) == ListBy(quizzes, "userId", userId)
getQuizAttemptsByUser(userId) == ListBy(quizAttempts, "userId", userId)
getChatMessagesByDocument(documentId) == ListBy(chatMessages, "documentId", documentId)

\* ------------------------------------------------------------ initial state
\* No update or delete has been called yet.
NoCall == [op |-> "none", id |-> NoSuchId]

Sessions == {"s1", "s2"}

Init ==
  /\ users = EmptyMap /\ documents = EmptyMap /\ notes = EmptyMap
  /\ flashcardSets = EmptyMap /\ flashcards = EmptyMap /\ quizzes = EmptyMap
  /\ quizAttempts = EmptyMap /\ chatMessages = EmptyMap
  /\ uuid = 0 /\ now = 0 /\ ticks = 0
  /\ issued = <<>>
  /\ created = EmptyMap
  /\ lastFound = "none"
  /\ lastCall = NoCall
  /\ currentSet = [s \in Sessions |-> null]
  /\ currentCardIndex = [s \in Sessions |-> 0]
  /\ showAnswer = [s \in Sessions |-> FALSE]
  /\ studyStats = [s \in Sessions |-> [correct |-> 0, total |-> 0]]
  /\ currentCards = [s \in Sessions |-> EmptyMap]
  /\ inflight = {}
  /\ rated = 0
  /\ rawPuts = 0
  /\ lastStatus = 0
  /\ reviewsApplied = EmptyMap
  /\ answered = [route |-> "none", documentId |-> "", status |-> 0]
  /\ currentQuiz = null
  /\ currentQuestionIndex = 0
  /\ selectedAnswers = <<>>
  /\ showResult = FALSE
  /\ quizStartTime = nullInt
  /\ attempts = <<>>
  /\ posted = {}

\* The clock advances (in steps of an hour).
HourMs == 60 * 60 * 1000
Tick ==
  /\ ticks < MaxTicks
  /\ now' = now + HourMs
  /\ ticks' = ticks + 1
  /\ UNCHANGED <<storeVars, uuid, issued, created, lastFound, lastCall, clientVars,
                 lastStatus, reviewsApplied,
                 quizVars, answered>>

\* ------------------------------------------------- calls of the store
\* The payloads and ids the callers of IStorage pass.
InsertUsers ==
  {[username |-> "ann", email |-> "ann@x", password |-> "pw"]}
InsertDocuments ==
  {[userId |-> "demo-user", title |-> "doc", type |-> "txt", content |-> "text"],
   [userId |-> "demo-user", title |-> "video", type |-> "youtube",
    content |-> "transcript", originalUrl |-> "http://v", metadata |-> "{}"]}
InsertNotes ==
  {[userId |-> "demo-user", title |-> "note", content |-> "text"],
   [userId |-> "demo-user", title |-> "note", content |-> "text",
    documentId |-> "id1", wordCount |-> 7]}
InsertFlashcardSets ==
  {[userId |-> "demo-user", title |-> "deck"],
   [userId |-> "demo-user", title |-> "deck", documentId |-> "id1", cardCount |-> 2]}
InsertFlashcards ==
  {[setId |-> "id1", question |-> "q", answer |-> "a"],
   [setId |-> "id2", question |-> "q", answer |-> "a", difficulty |-> "hard"],
   [setId |-> "id1", question |-> "q", answer |-> "a", difficulty |-> "",
    easinessFactor |-> 0]}
InsertQuizzes ==
  {[userId |-> "demo-user", title |-> "quiz", questions |-> "[]", timeLimit |-> 30],
   [userId |-> "demo-user", title |-> "quiz", questions |-> "[]", timeLimit |-> 0]}
InsertQuizAttempts ==
  {[userId |-> "demo-user", quizId |-> "id1", answers |-> "[]", score |-> 50,
    totalQuestions |-> 2],
   [userId |-> "demo-user", quizId |-> "id1", answers |-> "[]", score |-> 50,
    totalQuestions |-> 2, timeSpent |-> 0]}
InsertChatMessages ==
  {[userId |-> "demo-user", documentId |-> "id1", message |-> "hi",
    response |-> "hello"]}
UserUpdates == {[email |-> "bob@x"], [id |-> NoSuchId]}
NoteUpdates == {[title |-> "renamed"], [id |-> NoSuchId],
                [title |-> "final", updatedAt |-> 1]}
FlashcardUpdates ==
  {[repetitions |-> 1], [id |-> NoSuchId], [setId |-> "id2"],
   [difficulty |-> "expert"]}
CallIds == {UuidPool[i] : i \in 1..MaxIds} \cup {NoSuchId}

Issue(coll, id) == Append(issued, [coll |-> coll, id |-> id])
Forget(id) == [k \in DOMAIN created \ {id} |-> created[k]]
Remember(coll, r) == MapSet(created, r.id, [coll |-> coll, record |-> r])
others == <<ticks, now, clientVars, lastStatus, reviewsApplied, quizVars, answered>>
Report(found) == IF found THEN "found" ELSE "missing"
Call(op, id) == [op |-> op, id |-> id]


CreateUser(p) ==
  /\ uuid < MaxIds
  /\ LET r == createUser(p) IN
       /\ users' = r.store
       /\ issued' = Issue("users", r.ret.id)
       /\ created' = Remember("users", r.ret)
  /\ uuid' = uuid + 1
  /\ UNCHANGED <<lastFound, lastCall, documents, notes, flashcardSets, flashcards, quizzes,
                 quizAttempts, chatMessages, others>>
CreateDocument(p) ==
  /\ uuid < MaxIds
  /\ LET r == createDocument(p) IN
       /\ documents' = r.store
       /\ issued' = Issue("documents", r.ret.id)
       /\ created' = Remember("documents", r.ret)
  /\ uuid' = uuid + 1
  /\ UNCHANGED <<lastFound, lastCall, users, notes, flashcardSets, flashcards, quizzes,
                 quizAttempts, chatMessages, others>>
CreateNote(p) ==
  /\ uuid < MaxIds
  /\ LET r == createNote(p) IN
       /\ notes' = r.store
       /\ issued' = Issue("notes", r.ret.id)
       /\ created' = Remember("notes", r.ret)
  /\ uuid' = uuid + 1
  /\ UNCHANGED <<lastFound, lastCall, users, documents, flashcardSets, flashcards, quizzes,
                 quizAttempts, chatMessages, others>>
CreateFlashcardSet(p) ==
  /\ uuid < MaxIds
  /\ LET r == createFlashcardSet(p) IN
       /\ flashcardSets' = r.store
       /\ issued' = Issue("flashcardSets", r.ret.id)
       /\ created' = Remember("flashcardSets", r.ret)
  /\ uuid' = uuid + 1
  /\ UNCHANGED <<lastFound, lastCall, users, documents, notes, flashcards, quizzes,
                 quizAttempts, chatMessages, others>>
CreateFlashcard(p) ==
  /\ uuid < MaxIds
  /\ LET r == createFlashcard(p) IN
       /\ flashcards' = r.store
       /\ issued' = Issue("flashcards", r.ret.id)
       /\ created' = Remember("flashcards", r.ret)
  /\ uuid' = uuid + 1
  /\ UNCHANGED <<lastFound, lastCall, users, documents, notes, flashcardSets, quizzes,
                 quizAttempts, chatMessages, others>>
CreateQuiz(p) ==
  /\ uuid < MaxIds
  /\ LET r == createQuiz(p) IN
       /\ quizzes' = r.store
       /\ issued' = Issue("quizzes", r.ret.id)
       /\ created' = Remember("quizzes", r.ret)
  /\ uuid' = uuid + 1
  /\ UNCHANGED <<lastFound, lastCall, users, documents, notes, flashcardSets, flashcards,
                 quizAttempts, chatMessages, others>>
CreateQuizAttempt(p) ==
  /\ uuid < MaxIds
  /\ LET r == createQuizAttempt(p) IN
       /\ quizAttempts' = r.store
       /\ issued' = Issue("quizAttempts", r.ret.id)
       /\ created' = Remember("quizAttempts", r.ret)
  /\ uuid' = uuid + 1
  /\ UNCHANGED <<lastFound, lastCall, users, documents, notes, flashcardSets, flashcards, quizzes,
                 chatMessages, others>>
CreateChatMessage(p) ==
  /\ uuid < MaxIds
  /\ LET r == createChatMessage(p) IN
       /\ chatMessages' = r.store
       /\ issued' = Issue("chatMessages", r.ret.id)
       /\ created' = Remember("chatMessages", r.ret)
  /\ uuid' = uuid + 1
  /\ UNCHANGED <<lastFound, lastCall, users, documents, notes, flashcardSets, flashcards, quizzes,
                 quizAttempts, others>>

UpdateUser(id, u) ==
  /\ users' = updateUser(id, u).store
  /\ lastFound' = Report(updateUser(id, u).ret.found)
  /\ lastCall' = Call("updateUser", id)
  /\ created' = IF id \in DOMAIN users THEN Forget(id) ELSE created
  /\ UNCHANGED <<documents, notes, flashcardSets, flashcards, quizzes,
                 quizAttempts, chatMessages, uuid, issued, others>>
UpdateNote(id, u) ==
  /\ notes' = updateNote(id, u).store
  /\ lastFound' = Report(updateNote(id, u).ret.found)
  /\ lastCall' = Call("updateNote", id)
  /\ created' = IF id \in DOMAIN notes THEN Forget(id) ELSE created
  /\ UNCHANGED <<users, documents, flashcardSets, flashcards, quizzes,
                 quizAttempts, chatMessages, uuid, issued, others>>
UpdateFlashcard(id, u) ==
  /\ flashcards' = updateFlashcard(id, u).store
  /\ lastFound' = Report(updateFlashcard(id, u).ret.found)
  /\ lastCall' = Call("updateFlashcard", id)
  /\ created' = IF id \in DOMAIN flashcards THEN Forget(id) ELSE created
  /\ UNCHANGED <<users, documents, notes, flashcardSets, quizzes,
                 quizAttempts, chatMessages, uuid, issued, others>>
\* deleteDocument also removing the notes whose documentId names the document.
DeleteDocument_cascades(id) ==
  /\ documents' = deleteDocument(id).store
  /\ lastFound' = Report(deleteDocument(id).ret)
  /\ lastCall' = Call("deleteDocument", id)
  /\ created' = IF id \in DOMAIN documents THEN Forget(id) ELSE created
  /\ notes' = [k \in {n \in DOMAIN notes : notes[n].documentId # id} |-> notes[k]]
  /\ UNCHANGED <<users, flashcardSets, flashcards, quizzes,
                 quizAttempts, chatMessages, uuid, issued, others>>

DeleteDocument(id) ==
  /\ documents' = deleteDocument(id).store
  /\ lastFound' = Report(deleteDocument(id).ret)
  /\ lastCall' = Call("deleteDocument", id)
  /\ created' = IF id \in DOMAIN documents THEN Forget(id) ELSE created
  /\ UNCHANGED <<users, notes, flashcardSets, flashcards, quizzes,
                 quizAttempts, chatMessages, uuid, issued, others>>
DeleteNote(id) ==
  /\ notes' = deleteNote(id).store
  /\ lastFound' = Report(deleteNote(id).ret)
  /\ lastCall' = Call("deleteNote", id)
  /\ created' = IF id \in DOMAIN notes THEN Forget(id) ELSE created
  /\ UNCHANGED <<users, documents, flashcardSets, flashcards, quizzes,
                 quizAttempts, chatMessages, uuid, issued, others>>

Next ==
  \/ Tick
  \/ \E p \in InsertUsers : CreateUser(p)
  \/ \E p \in InsertDocuments : CreateDocument(p)
  \/ \E p \in InsertNotes : CreateNote(p)
  \/ \E p \in InsertFlashcardSets : CreateFlashcardSet(p)
  \/ \E p \in InsertFlashcards : CreateFlashcard(p)
  \/ \E p \in InsertQuizzes : CreateQuiz(p)
  \/ \E p \in InsertQuizAttempts : CreateQuizAttempt(p)
  \/ \E p \in InsertChatMessages : CreateChatMessage(p)
  \/ \E id \in CallIds, u \in UserUpdates : UpdateUser(id, u)
  \/ \E id \in CallIds, u \in NoteUpdates : UpdateNote(id, u)
  \/ \E id \in CallIds, u \in FlashcardUpdates : UpdateFlashcard(id, u)
  \/ \E id \in CallIds : DeleteDocument(id)
  \/ \E id \in CallIds : DeleteNote(id)

Spec == Init /\ [][Next]_vars

\* ------------------------------------------------ the list scenario
\* Flashcards and notes are created, updated and deleted, up to MaxListed
\* records, for the by-set, by-user and by-document lists to be taken over.
AddFlashcard(p) ==
  /\ uuid < MaxListed
  /\ LET r == createFlashcard(p) IN
       /\ flashcards' = r.store
       /\ issued' = Issue("flashcards", r.ret.id)
       /\ created' = Remember("flashcards", r.ret)
  /\ uuid' = uuid + 1
  /\ UNCHANGED <<lastFound, lastCall, users, documents, notes, flashcardSets, quizzes,
                 quizAttempts, chatMessages, others>>
AddNote(p) ==
  /\ uuid < MaxListed
  /\ LET r == createNote(p) IN
       /\ notes' = r.store
       /\ issued' = Issue("notes", r.ret.id)
       /\ created' = Remember("notes", r.ret)
  /\ uuid' = uuid + 1
  /\ UNCHANGED <<lastFound, lastCall, users, documents, flashcardSets, flashcards, quizzes,
                 quizAttempts, chatMessages, others>>

NextList ==
  \/ \E p \in InsertFlashcards : AddFlashcard(p)
  \/ \E p \in InsertNotes : AddNote(p)
  \/ \E id \in CallIds, u \in FlashcardUpdates : UpdateFlashcard(id, u)
  \/ \E id \in CallIds : DeleteNote(id)

SpecList == Init /\ [][NextList]_vars

\* ------------------------------------------------------------ the routes
\* POST /api/documents/upload: the parsed payload goes to createDocument.
UploadedDocument ==
  [userId |-> "demo-user", title |-> "notes.txt", type |-> "txt",
   content |-> "text", metadata |-> "{size}"]

UploadDocument ==
  /\ Cardinality(DOMAIN documents) < MaxDecks
  /\ LET r == createDocument(UploadedDocument) IN
       /\ documents' = r.store
       /\ issued' = Issue("documents", r.ret.id)
       /\ created' = Remember("documents", r.ret)
  /\ uuid' = uuid + 1
  /\ UNCHANGED <<lastFound, lastCall, users, notes, flashcardSets, flashcards, quizzes,
                 quizAttempts, chatMessages, others>>

\* What generateFlashcardsFromContent may return: the cards of the
\* language model's JSON, which nothing validates before the route's loop.
\* A card without a question fails insertFlashcardSchema.parse; the schema's
\* difficulty is any text.
GeneratedCard ==
  {[question |-> "q", answer |-> "a"],
   [question |-> "q", answer |-> "a", difficulty |-> "tricky"],
   [answer |-> "a"]}
GeneratedCards == UNION {[1..n -> GeneratedCard] : n \in 0..MaxCards}
Parses(cardData) == "question" \in DOMAIN cardData /\ "answer" \in DOMAIN cardData

\* The route's loop over generatedCards from card i on: the flashcards map
\* and the randomUUID count it leaves, and whether a parse threw.
RECURSIVE CreateCards(_, _, _, _, _)
CreateCards(cards, n, setId, generatedCards, i) ==
  IF i > Len(generatedCards) THEN [store |-> cards, uuid |-> n, threw |-> FALSE]
  ELSE IF ~Parses(generatedCards[i]) THEN [store |-> cards, uuid |-> n, threw |-> TRUE]
  ELSE LET cardData == generatedCards[i]
           flashcardData ==
             Spread([setId |-> setId, question |-> cardData.question,
                     answer |-> cardData.answer],
                    IF "difficulty" \in DOMAIN cardData
                    THEN [difficulty |-> cardData.difficulty] ELSE EmptyMap)
           card == NewFlashcard(flashcardData, UuidPool[n + 1])
       IN  CreateCards(MapSet(cards, card.id, card), n + 1, setId,
                       generatedCards, i + 1)

RECURSIVE IssueCards(_, _, _)
IssueCards(seq, from, to) ==
  IF from > to THEN seq
  ELSE IssueCards(Append(seq, [coll |-> "flashcards", id |-> UuidPool[from]]),
                  from + 1, to)

\* POST /api/flashcard-sets/generate
GenerateFlashcards(documentId, generatedCards) ==
  /\ Cardinality(DOMAIN flashcardSets) < MaxDecks
  /\ LET document == getDocument(documentId) IN
       IF ~document.found
       THEN /\ answered' = [route |-> "flashcard-sets", documentId |-> documentId,
                             status |-> 404]
            /\ UNCHANGED <<storeVars, uuid, issued, created>>
       ELSE LET setData ==
                  [userId |-> document.value.userId,
                   documentId |-> document.value.id,
                   title |-> "Flashcards", description |-> "Generated flashcards",
                   cardCount |-> Len(generatedCards)]
                set == createFlashcardSet(setData)
                loop == CreateCards(flashcards, uuid + 1, set.ret.id,
                                    generatedCards, 1)
            IN  /\ flashcardSets' = set.store
                /\ flashcards' = loop.store
                /\ uuid' = loop.uuid
                /\ issued' = IssueCards(Issue("flashcardSets", set.ret.id),
                                        uuid + 2, loop.uuid)
                /\ created' = [k \in DOMAIN created \cup {set.ret.id}
                                 \cup (DOMAIN loop.store \ DOMAIN flashcards) |->
                               IF k = set.ret.id
                               THEN [coll |-> "flashcardSets", record |-> set.ret]
                               ELSE IF k \in DOMAIN loop.store \ DOMAIN flashcards
                                    THEN [coll |-> "flashcards", record |-> loop.store[k]]
                                    ELSE created[k]]
                /\ answered' = [route |-> "flashcard-sets", documentId |-> documentId,
                                 status |-> IF loop.threw THEN 500 ELSE 200]
                /\ UNCHANGED <<users, documents, notes, quizzes, quizAttempts,
                               chatMessages>>
  /\ UNCHANGED <<lastFound, lastCall, ticks, now, clientVars, lastStatus,
                 reviewsApplied, quizVars>>

\* PUT /api/flashcards/:id with request body `updates`.
PutFlashcard(id, updates) ==
  LET card == updateFlashcard(id, updates)
  IN  [store |-> card.store,
       status |-> IF ~card.ret.found THEN 404 ELSE 200]

\* ------------------------------------------------ the flashcards page
\* The cards query's data for the session's current set; undefined until
\* the first fetch of that set's cards arrives.
CardsOf(s) == MapGet(currentCards[s], currentSet[s])
\* Study mode is rendered: currentSet && currentCards.
StudyMode(s) == currentSet[s] # null /\ CardsOf(s).found

\* The cards query (re)fetches GET /api/flashcard-sets/:id/cards; it is
\* enabled while a set is current.
FetchCards(s) ==
  /\ currentSet[s] # null
  /\ currentCards' = [currentCards EXCEPT
       ![s] = MapSet(@, currentSet[s], getFlashcardsBySet(currentSet[s]))]
  /\ UNCHANGED <<storeVars, uuid, issued, created, lastFound, lastCall, ticks, now, currentSet,
                 currentCardIndex, showAnswer, studyStats, inflight, rated,
                 rawPuts, lastStatus, reviewsApplied,
                 quizVars, answered>>

\* startStudySession without its setCurrentCardIndex(0).
startStudySession_keepsIndex(s, set) ==
  /\ set \in DOMAIN flashcardSets
  /\ currentSet' = [currentSet EXCEPT ![s] = set]
  /\ showAnswer' = [showAnswer EXCEPT ![s] = FALSE]
  /\ studyStats' = [studyStats EXCEPT ![s] = [correct |-> 0, total |-> 0]]
  /\ UNCHANGED <<storeVars, uuid, issued, created, lastFound, lastCall, ticks, now,
                 currentCards, currentCardIndex, inflight, rated, rawPuts,
                 lastStatus, reviewsApplied,
                 quizVars, answered>>

startStudySession(s, set) ==
  /\ set \in DOMAIN flashcardSets
  /\ currentSet' = [currentSet EXCEPT ![s] = set]
  /\ currentCardIndex' = [currentCardIndex EXCEPT ![s] = 0]
  /\ showAnswer' = [showAnswer EXCEPT ![s] = FALSE]
  /\ studyStats' = [studyStats EXCEPT ![s] = [correct |-> 0, total |-> 0]]
  /\ UNCHANGED <<storeVars, uuid, issued, created, lastFound, lastCall, ticks, now, currentCards,
                 inflight, rated, rawPuts, lastStatus, reviewsApplied,
                 quizVars, answered>>

\* The Exit Study button: setCurrentSet(null).
ExitStudy(s) ==
  /\ StudyMode(s)
  /\ currentSet' = [currentSet EXCEPT ![s] = null]
  /\ UNCHANGED <<storeVars, uuid, issued, created, lastFound, lastCall, ticks, now, currentCards,
                 currentCardIndex, showAnswer, studyStats, inflight, rated,
                 rawPuts, lastStatus, reviewsApplied,
                 quizVars, answered>>

handleCardFlip(s) ==
  /\ StudyMode(s)
  /\ showAnswer' = [showAnswer EXCEPT ![s] = ~showAnswer[s]]
  /\ UNCHANGED <<storeVars, uuid, issued, created, lastFound, lastCall, ticks, now, currentSet,
                 currentCards, currentCardIndex, studyStats, inflight, rated,
                 rawPuts, lastStatus, reviewsApplied,
                 quizVars, answered>>

\* (difficulty === 'easy' ? 3 : difficulty === 'medium' ? 1 : 0.5) days, in
\* half days.
\* The interval without its 'medium' branch.
IntervalHalfDays_noMedium(difficulty) ==
  IF difficulty = "easy" THEN 6 ELSE 1

\* The interval giving a day to every rating but easy and hard.
IntervalHalfDays_unknownAsMedium(difficulty) ==
  IF difficulty = "easy" THEN 6 ELSE IF difficulty = "hard" THEN 1 ELSE 2

IntervalHalfDays(difficulty) ==
  IF difficulty = "easy" THEN 6 ELSE IF difficulty = "medium" THEN 2 ELSE 1

\* The updates with the interval scaled by the card's easinessFactor.
ReviewUpdates_usesEasiness(card, difficulty, at) ==
  [difficulty |-> difficulty,
   lastReviewed |-> at,
   nextReview |-> at + IntervalHalfDays(difficulty) * 12 * 60 * 60 * 1000
                         * (OrInt(card, "easinessFactor", 250) \div 250),
   repetitions |-> OrInt(card, "repetitions", 0) + 1]

\* The `updates` handleDifficultyRating sends for `card` rated at `at`.
ReviewUpdates(card, difficulty, at) ==
  [difficulty |-> difficulty,
   lastReviewed |-> at,
   nextReview |-> at + IntervalHalfDays(difficulty) * 12 * 60 * 60 * 1000,
   repetitions |-> OrInt(card, "repetitions", 0) + 1]

Difficulty == {"easy", "medium", "hard"}

\* A rating button; the buttons are rendered in study mode once the answer
\* is shown.
handleDifficultyRating(s, difficulty) ==
  /\ StudyMode(s) /\ showAnswer[s]
  /\ LET cards == CardsOf(s).value
         i == currentCardIndex[s]
     IN  IF i + 1 > Len(cards)
         THEN UNCHANGED <<currentSet, currentCardIndex, showAnswer, studyStats,
                          inflight, rated>>
         ELSE LET card == cards[i + 1]
                  isCorrect == difficulty = "easy"
              IN  /\ inflight' = inflight \cup
                       {[id |-> card.id,
                         updates |-> ReviewUpdates(card, difficulty, now),
                         from |-> s, n |-> rated + 1, rating |-> difficulty,
                         at |-> now]}
                  /\ rated' = rated + 1
                  /\ IF i < Len(cards) - 1
                     THEN /\ studyStats' = [studyStats EXCEPT ![s] =
                                [correct |-> @.correct + (IF isCorrect THEN 1 ELSE 0),
                                 total |-> @.total + 1]]
                          /\ currentCardIndex' = [currentCardIndex EXCEPT ![s] = i + 1]
                          /\ showAnswer' = [showAnswer EXCEPT ![s] = FALSE]
                          /\ UNCHANGED currentSet
                     ELSE /\ currentSet' = [currentSet EXCEPT ![s] = null]
                          /\ currentCardIndex' = [currentCardIndex EXCEPT ![s] = 0]
                          /\ studyStats' = [studyStats EXCEPT ![s] =
                                [correct |-> 0, total |-> 0]]
                          /\ UNCHANGED showAnswer
  /\ UNCHANGED <<storeVars, uuid, issued, created, lastFound, lastCall, ticks, now, currentCards,
                 rawPuts, lastStatus, reviewsApplied,
                 quizVars, answered>>

\* The server handles one of the page's PUT requests.
HandlePut(m) ==
  /\ m \in inflight
  /\ LET r == PutFlashcard(m.id, m.updates) IN
       /\ flashcards' = r.store
       /\ lastStatus' = r.status
       /\ reviewsApplied' =
            IF r.status = 200
            THEN MapSet(reviewsApplied, m.id,
                        IF m.id \in DOMAIN reviewsApplied
                        THEN reviewsApplied[m.id] + 1 ELSE 1)
            ELSE reviewsApplied
  /\ inflight' = inflight \ {m}
  /\ created' = IF m.id \in DOMAIN flashcards THEN Forget(m.id) ELSE created
  /\ UNCHANGED <<users, documents, notes, flashcardSets, quizzes, quizAttempts,
                 chatMessages, uuid, issued, lastFound, lastCall, ticks, now, currentSet,
                 currentCardIndex, showAnswer, studyStats, currentCards, rated,
                 rawPuts, quizVars, answered>>

\* Any other HTTP client's PUT /api/flashcards/:id: the route passes the
\* body to the store as it is.
RawBodies ==
  {[repetitions |-> 0],
   [lastReviewed |-> HourMs, nextReview |-> 0],
   [lastReviewed |-> nullInt],
   ReviewUpdates([repetitions |-> 0], "hard", now)}

RawPut(id, body) ==
  /\ rawPuts < MaxRawPuts
  /\ rawPuts' = rawPuts + 1
  /\ LET r == PutFlashcard(id, body) IN
       /\ flashcards' = r.store
       /\ lastStatus' = r.status
  /\ created' = IF id \in DOMAIN flashcards THEN Forget(id) ELSE created
  /\ UNCHANGED <<users, documents, notes, flashcardSets, quizzes, quizAttempts,
                 chatMessages, uuid, issued, lastFound, lastCall, ticks, now, currentSet,
                 currentCardIndex, showAnswer, studyStats, currentCards,
                 inflight, rated, reviewsApplied,
                 quizVars, answered>>

NextUI ==
  \/ Tick
  \/ UploadDocument
  \/ \E d \in DOMAIN documents \cup {NoSuchId}, g \in GeneratedCards :
       GenerateFlashcards(d, g)
  \/ \E s \in Sessions, set \in DOMAIN flashcardSets : startStudySession(s, set)
  \/ \E s \in Sessions : FetchCards(s)
  \/ \E s \in Sessions : ExitStudy(s)
  \/ \E s \in Sessions : handleCardFlip(s)
  \/ \E s \in Sessions, d \in Difficulty :
       rated < MaxRatings /\ handleDifficultyRating(s, d)
  \/ \E m \in inflight : HandlePut(m)

SpecUI == Init /\ [][NextUI]_vars

NextAnyClient ==
  \/ NextUI
  \/ \E id \in DOMAIN flashcards \cup {NoSuchId}, b \in RawBodies : RawPut(id, b)

SpecReview == Init /\ [][NextAnyClient]_vars

\* ------------------------------------------------ one study session
\* One browser session studies a deck of up to MaxDeck well-formed cards
\* to its end.  handleDifficultyRating is called with any string (its
\* parameter type is not checked at run time), and another client may set
\* a card's easinessFactor.
StudyDecks ==
  {[i \in 1..n |-> [question |-> "q", answer |-> "a"]] : n \in 1..MaxDeck}
AnyDifficulty == Difficulty \cup {"expert"}
Student == "s1"

NextStudy ==
  \/ Tick
  \/ UploadDocument
  \/ \E d \in DOMAIN documents, g \in StudyDecks : GenerateFlashcards(d, g)
  \/ \E set \in DOMAIN flashcardSets : startStudySession(Student, set)
  \/ FetchCards(Student)
  \/ ExitStudy(Student)
  \/ handleCardFlip(Student)
  \/ \E d \in AnyDifficulty :
       rated < MaxStudyRatings /\ handleDifficultyRating(Student, d)
  \/ \E m \in inflight : HandlePut(m)
  \/ \E id \in DOMAIN flashcards : RawPut(id, [easinessFactor |-> 500])

SpecStudy == Init /\ [][NextStudy]_vars

\* ------------------------------------------- generation and chat routes
\* A document id a request may name: one randomUUID has returned or will
\* return, or none.
RouteIds == {UuidPool[i] : i \in 1..MaxRouteIds} \cup {NoSuchId}

\* The answer to a generation or chat request: its route, the document id
\* it named ("" when it named none) and the response status.
Answer(route, documentId, status) ==
  [route |-> route, documentId |-> documentId, status |-> status]

\* What an OpenAI-backed service call comes to: it throws, or it returns a
\* value, which the route's insert schema accepts (typed) or rejects.
Threw == [threw |-> TRUE]
Returned(value, typed) == [threw |-> FALSE, typed |-> typed, value |-> value]

GeneratedNote ==
  [title |-> "Notes", content |-> "summary", subject |-> "General",
   tags |-> "[]", wordCount |-> 0]
NoteOutcomes == {Threw, Returned(GeneratedNote, TRUE), Returned(GeneratedNote, FALSE)}

\* A generated question: the index of its correct option among
\* NumOptions options.
QuizQuestion == {[correctAnswer |-> k, options |-> NumOptions] : k \in 0..(NumOptions - 1)}
GeneratedQuiz(questions) ==
  [title |-> "Generated Quiz", description |-> "Quiz generated from uploaded content",
   questions |-> questions]
\* result.questions || []: any number of questions, none included.
QuestionLists == UNION {[1..n -> QuizQuestion] : n \in 0..MaxQuestions}
\* A long quiz: the first option is right for the first LongQuizCorrect
\* questions and the second for the others.
LongQuiz ==
  [i \in 1..LongQuizLength |->
     [correctAnswer |-> IF i <= LongQuizCorrect THEN 0 ELSE 1,
      options |-> NumOptions]]
QuizOutcomes ==
  {Threw, Returned(GeneratedQuiz(<<>>), FALSE),
   Returned(GeneratedQuiz(<<[correctAnswer |-> 0, options |-> NumOptions]>>), TRUE)}

ChatOutcomes == {Threw, Returned("hello", TRUE)}
\* Bodies of POST /api/chat naming document `id`, and naming none.
ChatBodies(id) ==
  {[message |-> "hi", documentId |-> id], [documentId |-> id],
   [message |-> "hi", documentId |-> ""], [message |-> "hi"]}

\* POST /api/notes/generate
GenerateNotes(documentId, outcome) ==
  /\ LET document == getDocument(documentId) IN
       IF ~document.found
       THEN /\ answered' = Answer("notes", documentId, 404)
            /\ UNCHANGED <<storeVars, uuid, issued, created>>
       ELSE IF outcome.threw \/ ~outcome.typed
       THEN /\ answered' = Answer("notes", documentId, 500)
            /\ UNCHANGED <<storeVars, uuid, issued, created>>
       ELSE LET generatedNote == outcome.value
                noteData ==
                  [userId |-> document.value.userId,
                   documentId |-> document.value.id,
                   title |-> generatedNote.title,
                   content |-> generatedNote.content,
                   subject |-> generatedNote.subject,
                   tags |-> generatedNote.tags,
                   wordCount |-> generatedNote.wordCount]
                note == createNote(noteData)
            IN  /\ notes' = note.store
                /\ uuid' = uuid + 1
                /\ issued' = Issue("notes", note.ret.id)
                /\ created' = Remember("notes", note.ret)
                /\ answered' = Answer("notes", documentId, 200)
                /\ UNCHANGED <<users, documents, flashcardSets, flashcards,
                               quizzes, quizAttempts, chatMessages>>
  /\ UNCHANGED <<lastFound, lastCall, ticks, now, clientVars, lastStatus,
                 reviewsApplied, quizVars>>

\* POST /api/quizzes/generate
GenerateQuiz(documentId, outcome) ==
  /\ LET document == getDocument(documentId) IN
       IF ~document.found
       THEN /\ answered' = Answer("quizzes", documentId, 404)
            /\ UNCHANGED <<storeVars, uuid, issued, created>>
       ELSE IF outcome.threw \/ ~outcome.typed
       THEN /\ answered' = Answer("quizzes", documentId, 500)
            /\ UNCHANGED <<storeVars, uuid, issued, created>>
       ELSE LET generatedQuiz == outcome.value
                quizData ==
                  [userId |-> document.value.userId,
                   documentId |-> document.value.id,
                   title |-> generatedQuiz.title,
                   description |-> generatedQuiz.description,
                   questions |-> generatedQuiz.questions,
                   timeLimit |-> 30]
                quiz == createQuiz(quizData)
            IN  /\ quizzes' = quiz.store
                /\ uuid' = uuid + 1
                /\ issued' = Issue("quizzes", quiz.ret.id)
                /\ created' = Remember("quizzes", quiz.ret)
                /\ answered' = Answer("quizzes", documentId, 200)
                /\ UNCHANGED <<users, documents, notes, flashcardSets,
                               flashcards, quizAttempts, chatMessages>>
  /\ UNCHANGED <<lastFound, lastCall, ticks, now, clientVars, lastStatus,
                 reviewsApplied, quizVars>>

\* POST /api/chat without its `if (!document)` answer.
Chat_noDocumentCheck(body, outcome) ==
  /\ LET documentId == IF "documentId" \in DOMAIN body THEN body.documentId ELSE ""
         document == getDocument(documentId)
     IN  IF documentId = ""
         THEN /\ answered' = Answer("chat", documentId, 400)
              /\ UNCHANGED <<storeVars, uuid, issued, created>>
         ELSE IF outcome.threw \/ "message" \notin DOMAIN body
         THEN /\ answered' = Answer("chat", documentId, 500)
              /\ UNCHANGED <<storeVars, uuid, issued, created>>
         ELSE LET chatData ==
                    [userId |-> "demo-user", documentId |-> documentId,
                     message |-> body.message, response |-> outcome.value]
                  chatMessage == createChatMessage(chatData)
              IN  /\ chatMessages' = chatMessage.store
                  /\ uuid' = uuid + 1
                  /\ issued' = Issue("chatMessages", chatMessage.ret.id)
                  /\ created' = Remember("chatMessages", chatMessage.ret)
                  /\ answered' = Answer("chat", documentId, 200)
                  /\ UNCHANGED <<users, documents, notes, flashcardSets,
                                 flashcards, quizzes, quizAttempts>>
  /\ UNCHANGED <<lastFound, lastCall, ticks, now, clientVars, lastStatus,
                 reviewsApplied, quizVars>>

\* POST /api/chat
Chat(body, outcome) ==
  /\ LET documentId == IF "documentId" \in DOMAIN body THEN body.documentId ELSE ""
         document == getDocument(documentId)
     IN  IF documentId = ""
         THEN /\ answered' = Answer("chat", documentId, 400)
              /\ UNCHANGED <<storeVars, uuid, issued, created>>
         ELSE IF ~document.found
         THEN /\ answered' = Answer("chat", documentId, 404)
              /\ UNCHANGED <<storeVars, uuid, issued, created>>
         ELSE IF outcome.threw \/ "message" \notin DOMAIN body
         THEN /\ answered' = Answer("chat", documentId, 500)
              /\ UNCHANGED <<storeVars, uuid, issued, created>>
         ELSE LET chatData ==
                    [userId |-> "demo-user", documentId |-> documentId,
                     message |-> body.message, response |-> outcome.value]
                  chatMessage == createChatMessage(chatData)
              IN  /\ chatMessages' = chatMessage.store
                  /\ uuid' = uuid + 1
                  /\ issued' = Issue("chatMessages", chatMessage.ret.id)
                  /\ created' = Remember("chatMessages", chatMessage.ret)
                  /\ answered' = Answer("chat", documentId, 200)
                  /\ UNCHANGED <<users, documents, notes, flashcardSets,
                                 flashcards, quizzes, quizAttempts>>
  /\ UNCHANGED <<lastFound, lastCall, ticks, now, clientVars, lastStatus,
                 reviewsApplied, quizVars>>

\* Documents are uploaded and deleted while generation and chat requests
\* name them, ids of documents since deleted and ids never issued included.
NextRoutes ==
  \/ uuid < MaxRouteIds /\ UploadDocument
  \/ \E id \in RouteIds : DeleteDocument(id)
  \/ \E d \in RouteIds, o \in NoteOutcomes :
       (d \in DOMAIN documents => uuid < MaxRouteIds) /\ GenerateNotes(d, o)
  \/ \E d \in RouteIds, g \in GeneratedCards :
       (d \in DOMAIN documents => uuid + Len(g) < MaxRouteIds)
         /\ GenerateFlashcards(d, g)
  \/ \E d \in RouteIds, o \in QuizOutcomes :
       (d \in DOMAIN documents => uuid < MaxRouteIds) /\ GenerateQuiz(d, o)
  \/ \E d \in RouteIds : \E b \in ChatBodies(d), o \in ChatOutcomes :
       (d \in DOMAIN documents => uuid < MaxRouteIds) /\ Chat(b, o)

SpecRoutes == Init /\ [][NextRoutes]_vars

\* --------------------------------------------------------- the quiz page
\* selectedAnswers[i] === undefined: a hole of the array or an index past
\* its end.  The array is a sequence whose element i + 1 is index i.
undefinedAnswer == -1
AnswerAt(answers, i) ==
  IF i + 1 \in DOMAIN answers THEN answers[i + 1] ELSE undefinedAnswer

\* const newAnswers = [...answers]; newAnswers[i] = answerIndex
SetAnswer(answers, i, answerIndex) ==
  [k \in 1..(IF i + 1 > Len(answers) THEN i + 1 ELSE Len(answers)) |->
     IF k = i + 1 THEN answerIndex ELSE AnswerAt(answers, k - 1)]

\* currentQuiz.questions; the quiz object the page holds is the stored one
\* (the store never updates or deletes a quiz).
Questions == quizzes[currentQuiz].questions

\* The question view (currentQuiz && !showResult) is rendered; rendering it
\* reads questions[currentQuestionIndex].question, which throws when there
\* is no such question.
QuestionView ==
  /\ currentQuiz # null /\ ~showResult
  /\ currentQuestionIndex + 1 \in DOMAIN Questions
ResultView == currentQuiz # null /\ showResult

\* The Next / Finish button:
\* disabled={selectedAnswers[currentQuestionIndex] === undefined}
NextEnabled == AnswerAt(selectedAnswers, currentQuestionIndex) # undefinedAnswer

\* selectedAnswers.forEach(...) counting answer === questions[index]?.correctAnswer
CorrectCount(answers, questions) ==
  Cardinality({i \in DOMAIN answers :
                 /\ answers[i] # undefinedAnswer
                 /\ i \in DOMAIN questions
                 /\ answers[i] = questions[i].correctAnswer})

\* Math.round((correctCount / n) * 100) for 0 <= correctCount <= n and
\* 1 <= n <= LongQuizLength, in IEEE-754 double arithmetic.  The division
\* rounds correctCount / n to the nearest double and the product rounds
\* again; Math.round then gives the integer nearest to the product, a half
\* rounding up.  The product is the exact percentage or within 1e-13 of it,
\* so the result is the integer nearest to the exact percentage but where
\* the exact percentage ends in .5 and the product falls below it: for
\* these n only 23 / 40, where (23 / 40) * 100 is 57.49999999999999.
DoubleFallsShort == {<<23, 40>>}
RoundPercent(correctCount, n) ==
  IF <<correctCount, n>> \in DoubleFallsShort
  THEN (200 * correctCount + n) \div (2 * n) - 1
  ELSE (200 * correctCount + n) \div (2 * n)

\* Start Quiz in the list, Retake Quiz in the result view.
startQuiz(quiz) ==
  /\ currentQuiz = null \/ (ResultView /\ quiz = currentQuiz)
  /\ quiz \in DOMAIN quizzes
  /\ currentQuiz' = quiz
  /\ currentQuestionIndex' = 0
  /\ selectedAnswers' = <<>>
  /\ showResult' = FALSE
  /\ quizStartTime' = now
  /\ UNCHANGED <<storeVars, uuid, issued, created, lastFound, lastCall, ticks,
                 now, clientVars, lastStatus, reviewsApplied, answered,
                 attempts, posted>>

\* An option button of the current question.
selectAnswer(answerIndex) ==
  /\ QuestionView
  /\ answerIndex \in 0..(Questions[currentQuestionIndex + 1].options - 1)
  /\ selectedAnswers' = SetAnswer(selectedAnswers, currentQuestionIndex, answerIndex)
  /\ UNCHANGED <<storeVars, uuid, issued, created, lastFound, lastCall, ticks,
                 now, clientVars, lastStatus, reviewsApplied, answered,
                 currentQuiz, currentQuestionIndex, showResult, quizStartTime,
                 attempts, posted>>

\* finishQuiz's attemptData.
AttemptData ==
  [quizId |-> currentQuiz,
   answers |-> selectedAnswers,
   score |-> RoundPercent(CorrectCount(selectedAnswers, Questions), Len(Questions)),
   totalQuestions |-> Len(Questions),
   timeSpent |-> (now - quizStartTime) \div 1000]

\* The Next Question / Finish Quiz button: nextQuestion, and finishQuiz on
\* the last question.
nextQuestion ==
  /\ QuestionView /\ NextEnabled
  /\ IF currentQuestionIndex < Len(Questions) - 1
     THEN /\ currentQuestionIndex' = currentQuestionIndex + 1
          /\ UNCHANGED <<showResult, attempts, posted>>
     ELSE IF quizStartTime = nullInt
     THEN UNCHANGED <<currentQuestionIndex, showResult, attempts, posted>>
     ELSE /\ attempts' = Append(attempts, AttemptData)
          /\ posted' = posted \cup {[n |-> Len(attempts) + 1, body |-> AttemptData]}
          /\ showResult' = TRUE
          /\ UNCHANGED currentQuestionIndex
  /\ UNCHANGED <<storeVars, uuid, issued, created, lastFound, lastCall, ticks,
                 now, clientVars, lastStatus, reviewsApplied, answered,
                 currentQuiz, selectedAnswers, quizStartTime>>

\* The Previous button, disabled on the first question.
previousQuestion ==
  /\ QuestionView /\ currentQuestionIndex # 0
  /\ currentQuestionIndex' =
       IF currentQuestionIndex > 0 THEN currentQuestionIndex - 1
       ELSE currentQuestionIndex
  /\ UNCHANGED <<storeVars, uuid, issued, created, lastFound, lastCall, ticks,
                 now, clientVars, lastStatus, reviewsApplied, answered,
                 currentQuiz, selectedAnswers, showResult, quizStartTime,
                 attempts, posted>>

\* Exit Quiz in the question view, Back to Quizzes in the result view.
exitQuiz ==
  /\ QuestionView \/ ResultView
  /\ currentQuiz' = null
  /\ currentQuestionIndex' = 0
  /\ selectedAnswers' = <<>>
  /\ showResult' = FALSE
  /\ quizStartTime' = nullInt
  /\ UNCHANGED <<storeVars, uuid, issued, created, lastFound, lastCall, ticks,
                 now, clientVars, lastStatus, reviewsApplied, answered,
                 attempts, posted>>

\* POST /api/quiz-attempts: the server handles one of the page's requests.
PostQuizAttempt(m) ==
  /\ m \in posted
  /\ posted' = posted \ {m}
  /\ LET attemptData == Spread(m.body, [userId |-> "demo-user"])
         attempt == createQuizAttempt(attemptData)
     IN  /\ quizAttempts' = attempt.store
         /\ uuid' = uuid + 1
         /\ issued' = Issue("quizAttempts", attempt.ret.id)
         /\ created' = Remember("quizAttempts", attempt.ret)
  /\ UNCHANGED <<users, documents, notes, flashcardSets, flashcards, quizzes,
                 chatMessages, lastFound, lastCall, ticks, now, clientVars,
                 lastStatus, reviewsApplied, answered, currentQuiz,
                 currentQuestionIndex, selectedAnswers, showResult,
                 quizStartTime, attempts>>

\* The options the taker picks from: any option of a short quiz, the first
\* option throughout the long quiz.
TakerChoices ==
  IF currentQuiz # null /\ Len(Questions) > MaxQuestions
  THEN {0} ELSE 0..(NumOptions - 1)

\* One quiz is generated from an uploaded document and taken, left and
\* retaken on the quiz page while the clock advances.
NextQuiz ==
  \/ Tick
  \/ UploadDocument
  \/ \E d \in DOMAIN documents, q \in QuestionLists \cup {LongQuiz} :
       /\ Cardinality(DOMAIN quizzes) < MaxDecks
       /\ GenerateQuiz(d, Returned(GeneratedQuiz(q), TRUE))
  \/ \E quiz \in DOMAIN quizzes : Len(attempts) < MaxAttempts /\ startQuiz(quiz)
  \/ \E answerIndex \in TakerChoices : selectAnswer(answerIndex)
  \/ nextQuestion
  \/ previousQuestion
  \/ exitQuiz
  \/ \E m \in posted : PostQuizAttempt(m)

SpecQuiz == Init /\ [][NextQuiz]_vars

\* ================================================================ claims
Range(f) == {f[x] : x \in DOMAIN f}

\* ---------------------------------------------------------------- C1
\* The accessor the store offers for a record of collection `coll`: the
\* get method where there is one, else the record's place in the list its
\* foreign key selects.
InList(list, r) == Cardinality({i \in DOMAIN list : list[i] = r}) = 1
Retrieves(coll, r) ==
  CASE coll = "users" -> getUser(r.id) = Found(r)
    [] coll = "documents" -> getDocument(r.id) = Found(r)
    [] coll = "notes" -> getNote(r.id) = Found(r)
    [] coll = "flashcardSets" -> getFlashcardSet(r.id) = Found(r)
    [] coll = "quizzes" -> getQuiz(r.id) = Found(r)
    [] coll = "flashcards" -> InList(getFlashcardsBySet(r.setId), r)
    [] coll = "quizAttempts" -> InList(getQuizAttemptsByUser(r.userId), r)
    [] coll = "chatMessages" -> InList(getChatMessagesByDocument(r.documentId), r)

\* C1: for every entity type and payload, get by the id create returned
\* yields a record equal to the one create returned, as long as that id has
\* not been updated or deleted since.
C1_GetAfterCreate ==
  \A k \in DOMAIN created : Retrieves(created[k].coll, created[k].record)

\* A note created after another record, still untouched, and a document.
C1_Witness ==
  \E k \in DOMAIN created, d \in DOMAIN created :
    /\ created[k].coll = "notes" /\ created[d].coll = "documents"
    /\ k = UuidPool[2]
    /\ getNote(k) = Found(created[k].record)
    /\ created[k].record.wordCount = 0

\* ---------------------------------------------------------------- C2
\* C2: for every id absent from a collection, get and update report
\* undefined and delete reports false, and the call leaves the collection
\* as it was (the methods touch no other collection).
C2_MissingIdIsNoOp ==
  \A id \in CallIds :
    /\ id \notin DOMAIN users =>
         /\ getUser(id) = Undefined
         /\ \A u \in UserUpdates :
              updateUser(id, u) = [store |-> users, ret |-> Undefined]
    /\ id \notin DOMAIN documents =>
         /\ getDocument(id) = Undefined
         /\ deleteDocument(id) = [store |-> documents, ret |-> FALSE]
    /\ id \notin DOMAIN notes =>
         /\ getNote(id) = Undefined
         /\ \A u \in NoteUpdates :
              updateNote(id, u) = [store |-> notes, ret |-> Undefined]
         /\ deleteNote(id) = [store |-> notes, ret |-> FALSE]
    /\ id \notin DOMAIN flashcardSets => getFlashcardSet(id) = Undefined
    /\ id \notin DOMAIN flashcards =>
         \A u \in FlashcardUpdates :
           updateFlashcard(id, u) = [store |-> flashcards, ret |-> Undefined]
    /\ id \notin DOMAIN quizzes => getQuiz(id) = Undefined

\* An update or delete has been called with an absent id while the store
\* holds a note and another record.
C2_Witness ==
  /\ lastFound = "missing"
  /\ notes # EmptyMap
  /\ uuid >= 2

\* ---------------------------------------------------------------- C9
\* C9: every record stored under key k has id k, after any sequence of
\* create, update and delete, including an update whose payload carries an
\* id.
C9_IdIsKey ==
  /\ \A k \in DOMAIN users : users[k].id = k
  /\ \A k \in DOMAIN documents : documents[k].id = k
  /\ \A k \in DOMAIN notes : notes[k].id = k
  /\ \A k \in DOMAIN flashcardSets : flashcardSets[k].id = k
  /\ \A k \in DOMAIN flashcards : flashcards[k].id = k
  /\ \A k \in DOMAIN quizzes : quizzes[k].id = k
  /\ \A k \in DOMAIN quizAttempts : quizAttempts[k].id = k
  /\ \A k \in DOMAIN chatMessages : chatMessages[k].id = k

\* ---------------------------------------------------------------- C10
Collection(coll) ==
  CASE coll = "users" -> users [] coll = "documents" -> documents
    [] coll = "notes" -> notes [] coll = "flashcardSets" -> flashcardSets
    [] coll = "flashcards" -> flashcards [] coll = "quizzes" -> quizzes
    [] coll = "quizAttempts" -> quizAttempts [] coll = "chatMessages" -> chatMessages
Collections ==
  {"users", "documents", "notes", "flashcardSets", "flashcards", "quizzes",
   "quizAttempts", "chatMessages"}

\* C10: within one entity type every create yields an id no earlier create
\* of that type yielded (deleted records included), and the keys of a
\* collection are ids its creates yielded: no create overwrites a record.
C10_UniqueIds ==
  /\ \A i, j \in DOMAIN issued :
       i # j /\ issued[i].coll = issued[j].coll => issued[i].id # issued[j].id
  /\ \A c \in Collections :
       DOMAIN Collection(c) \subseteq {e.id : e \in {x \in Range(issued) : x.coll = c}}

\* Two documents were created, the first of which has been deleted.
C10_Witness ==
  /\ Len(issued) >= 2
  /\ issued[1].coll = "documents" /\ issued[2].coll = "documents"
  /\ issued[1].id \notin DOMAIN documents
  /\ issued[2].id \in DOMAIN documents

\* ---------------------------------------------------------------- C3
\* C3: a review (any PUT /api/flashcards/:id) naming a card id that does
\* not exist is answered 404 and leaves the flashcards map as it was.
C3_MissingCardReview ==
  \A id \in (CallIds \cup {UuidPool[i] : i \in 1..uuid}) \ DOMAIN flashcards :
    \A u \in RawBodies \cup {m.updates : m \in inflight} :
      PutFlashcard(id, u) = [store |-> flashcards, status |-> 404]

\* A PUT for an absent id was answered 404 while the store holds cards.
C3_Witness ==
  /\ lastStatus = 404
  /\ rawPuts = 1
  /\ flashcards # EmptyMap

\* ---------------------------------------------------------------- C4
\* The step in which the server handles the page's request m.
Handled(m) == m \in inflight /\ inflight' = inflight \ {m}

\* C4: a review given at instant `at` and applied to an existing card sets
\* lastReviewed = at and nextReview = at + 3 days (easy), + 1 day (medium),
\* + 12 hours (hard).
C4_ReviewSchedule ==
  [][\A m \in inflight :
       Handled(m) /\ m.id \in DOMAIN flashcards =>
         /\ flashcards'[m.id].lastReviewed = m.at
         /\ flashcards'[m.id].nextReview - m.at =
              (CASE m.rating = "easy" -> 259200000
                 [] m.rating = "medium" -> 86400000
                 [] m.rating = "hard" -> 43200000)]_vars

\* A card reviewed "hard" an hour after the start, due 12 hours later, and
\* one reviewed "easy".
C4_Witness ==
  /\ \E k \in DOMAIN flashcards :
       /\ flashcards[k].difficulty = "hard"
       /\ flashcards[k].lastReviewed = 3600000
       /\ flashcards[k].nextReview = 46800000
  /\ reviewsApplied # EmptyMap

\* ---------------------------------------------------------------- C5
\* C5: every review applied to an existing card stores repetitions one
\* higher than the value stored before it.
C5_ReviewAddsOne ==
  [][\A m \in inflight :
       Handled(m) /\ m.id \in DOMAIN flashcards =>
         flashcards'[m.id].repetitions = flashcards[m.id].repetitions + 1]_vars

\* ---------------------------------------------------------------- C6
\* C6: the stored repetitions of a flashcard never decreases.
C6_RepetitionsMonotone ==
  [][\A k \in DOMAIN flashcards :
       flashcards'[k].repetitions >= flashcards[k].repetitions]_vars

\* ---------------------------------------------------------------- C7
\* C7: no review's increment is lost: after n reviews of a card (created
\* with repetitions 0) its stored repetitions is n.
C7_NoLostReview ==
  \A k \in DOMAIN flashcards :
    flashcards[k].repetitions =
      (IF k \in DOMAIN reviewsApplied THEN reviewsApplied[k] ELSE 0)

\* ---------------------------------------------------------------- C8
\* C8: every flashcard with lastReviewed and nextReview both set has
\* nextReview strictly after lastReviewed.
C8_NextAfterLast ==
  \A k \in DOMAIN flashcards :
    flashcards[k].lastReviewed # nullInt /\ flashcards[k].nextReview # nullInt
      => flashcards[k].nextReview > flashcards[k].lastReviewed

\* ---------------------------------------------------------------- C11
\* Record `new` differs from record `old` in the fields `fs` at most.
ChangesOnly(old, new, fs) ==
  /\ DOMAIN old \subseteq DOMAIN new
  /\ DOMAIN new \subseteq DOMAIN old \cup fs
  /\ \A g \in DOMAIN old \ fs : new[g] = old[g]
\* Map `m2` holds the keys of `m` and, but for key `id`, its records.
RestUnchanged(m, m2, id) ==
  /\ DOMAIN m2 = DOMAIN m
  /\ \A k \in DOMAIN m \ {id} : m2[k] = m[k]

\* C11 as stated: an update of an existing record changes only the fields
\* of its payload, for users, notes and flashcards alike, and no other
\* record.
C11_UpdateChangesOnlyPayload ==
  /\ \A id \in DOMAIN users : \A u \in UserUpdates :
       /\ RestUnchanged(users, updateUser(id, u).store, id)
       /\ ChangesOnly(users[id], updateUser(id, u).store[id], DOMAIN u)
  /\ \A id \in DOMAIN notes : \A u \in NoteUpdates :
       /\ RestUnchanged(notes, updateNote(id, u).store, id)
       /\ ChangesOnly(notes[id], updateNote(id, u).store[id], DOMAIN u)
  /\ \A id \in DOMAIN flashcards : \A u \in FlashcardUpdates :
       /\ RestUnchanged(flashcards, updateFlashcard(id, u).store, id)
       /\ ChangesOnly(flashcards[id], updateFlashcard(id, u).store[id], DOMAIN u)

\* C11, amended: an update of an existing record changes only the fields of
\* its payload and, on a note, updatedAt; every other field of the record
\* and every other record of the collection keep their values.
C11_UpdateChangesPayloadAndStamp ==
  /\ \A id \in DOMAIN users : \A u \in UserUpdates :
       /\ RestUnchanged(users, updateUser(id, u).store, id)
       /\ ChangesOnly(users[id], updateUser(id, u).store[id], DOMAIN u)
  /\ \A id \in DOMAIN notes : \A u \in NoteUpdates :
       /\ RestUnchanged(notes, updateNote(id, u).store, id)
       /\ ChangesOnly(notes[id], updateNote(id, u).store[id],
                      DOMAIN u \cup {"updatedAt"})
  /\ \A id \in DOMAIN flashcards : \A u \in FlashcardUpdates :
       /\ RestUnchanged(flashcards, updateFlashcard(id, u).store, id)
       /\ ChangesOnly(flashcards[id], updateFlashcard(id, u).store[id], DOMAIN u)

\* The last call renamed a note an hour after it was created, next to a
\* note no call has touched.
C11_Witness ==
  /\ lastFound = "found"
  /\ \E k \in DOMAIN notes, k2 \in DOMAIN notes :
       /\ lastCall = Call("updateNote", k)
       /\ notes[k].title = "renamed"
       /\ notes[k].updatedAt = notes[k].createdAt + HourMs
       /\ k2 # k /\ k2 \in DOMAIN created

\* ---------------------------------------------------------------- C12
\* C12: when a delete removes a stored document or note (it returns true),
\* the same delete called again at once returns false and leaves the
\* collection as the first call left it.
C12_DeleteTwice ==
  [][\A id \in CallIds :
       /\ id \in DOMAIN documents /\ id \notin DOMAIN documents' =>
            /\ lastCall' = Call("deleteDocument", id) /\ lastFound' = "found"
            /\ deleteDocument(id)' = [store |-> documents', ret |-> FALSE]
       /\ id \in DOMAIN notes /\ id \notin DOMAIN notes' =>
            /\ lastCall' = Call("deleteNote", id) /\ lastFound' = "found"
            /\ deleteNote(id)' = [store |-> notes', ret |-> FALSE]]_vars

\* The first of two documents was deleted, and the last call, a delete of
\* the same id, returned false.
C12_Witness ==
  /\ Len(issued) = 2
  /\ issued[1].coll = "documents" /\ issued[2].coll = "documents"
  /\ lastCall = Call("deleteDocument", issued[1].id)
  /\ lastFound = "missing"
  /\ DOMAIN documents = {issued[2].id}

\* ---------------------------------------------------------------- C13
\* The step is a call of the store's method `op` with `id`: the update and
\* delete calls are the steps that neither issue an id nor move the clock.
Calls(op, id) == lastCall' = Call(op, id) /\ uuid' = uuid /\ now' = now

\* C13: a delete returns true exactly when its id was stored, removes that
\* record and no other of its collection, and leaves every other
\* collection as it was, the records whose documentId names a deleted
\* document included.
C13_DeleteRemovesOnlyThat ==
  [][\A id \in CallIds :
       /\ Calls("deleteDocument", id) =>
            /\ lastFound' = Report(id \in DOMAIN documents)
            /\ documents' = [k \in DOMAIN documents \ {id} |-> documents[k]]
            /\ UNCHANGED <<users, notes, flashcardSets, flashcards, quizzes,
                           quizAttempts, chatMessages>>
       /\ Calls("deleteNote", id) =>
            /\ lastFound' = Report(id \in DOMAIN notes)
            /\ notes' = [k \in DOMAIN notes \ {id} |-> notes[k]]
            /\ UNCHANGED <<users, documents, flashcardSets, flashcards, quizzes,
                           quizAttempts, chatMessages>>]_vars

\* The last call deleted a document, and a note whose documentId names it
\* is still stored as it was created.
C13_Witness ==
  /\ lastFound = "found"
  /\ \E d \in CallIds, n \in DOMAIN notes :
       /\ lastCall = Call("deleteDocument", d)
       /\ d \notin DOMAIN documents
       /\ notes[n].documentId = d
       /\ n \in DOMAIN created /\ created[n].record = notes[n]

\* ---------------------------------------------------------------- C14
\* `list` holds the records of map `m` whose field `f` is `v`, each once.
ListsExactly(list, m, f, v) ==
  LET keys == {k \in DOMAIN m : f \in DOMAIN m[k] /\ m[k][f] = v}
  IN  /\ Len(list) = Cardinality(keys)
      /\ Range(list) = {m[k] : k \in keys}
\* The values a foreign-key field is asked for.
ForeignKeys == {"id1", "id2", NoSuchId, "demo-user", null}

\* C14: each list method returns exactly the stored records whose
\* foreign-key field equals the value asked for, each once.
C14_ListByExact ==
  \A v \in ForeignKeys :
    /\ ListsExactly(getFlashcardsBySet(v), flashcards, "setId", v)
    /\ ListsExactly(getNotesByUser(v), notes, "userId", v)
    /\ ListsExactly(getNotesByDocument(v), notes, "documentId", v)

\* Four cards were created, three with setId id1 and one with setId id2,
\* and the list of set id1 has three cards.
C14_Witness ==
  /\ Cardinality(DOMAIN flashcards) = 4
  /\ DOMAIN created = DOMAIN flashcards
  /\ Cardinality({k \in DOMAIN flashcards : flashcards[k].setId = "id1"}) = 3
  /\ Cardinality({k \in DOMAIN flashcards : flashcards[k].setId = "id2"}) = 1
  /\ Len(getFlashcardsBySet("id1")) = 3
  /\ Range(getFlashcardsBySet("id1")) =
       {created[k].record : k \in {c \in DOMAIN created : created[c].record.setId = "id1"}}

\* ---------------------------------------------------------------- C15
\* C15 as stated: whatever updates reached the store before it, an update
\* of a stored id is not rejected, and the record it leaves holds the
\* update's value in every field the update carries.
C15_LastUpdateWins ==
  [][\A id \in CallIds :
       /\ \A u \in UserUpdates :
            Calls("updateUser", id) /\ id \in DOMAIN users
              /\ users' = updateUser(id, u).store =>
                /\ lastFound' = "found"
                /\ \A f \in DOMAIN u : users'[id][f] = u[f]
       /\ \A u \in NoteUpdates :
            Calls("updateNote", id) /\ id \in DOMAIN notes
              /\ notes' = updateNote(id, u).store =>
                /\ lastFound' = "found"
                /\ \A f \in DOMAIN u : notes'[id][f] = u[f]
       /\ \A u \in FlashcardUpdates :
            Calls("updateFlashcard", id) /\ id \in DOMAIN flashcards
              /\ flashcards' = updateFlashcard(id, u).store =>
                /\ lastFound' = "found"
                /\ \A f \in DOMAIN u : flashcards'[id][f] = u[f]]_vars

\* C15, amended: the same, but for a note's updatedAt, which holds the time
\* of the update and not the update's value.
C15_LastUpdateWinsButStamp ==
  [][\A id \in CallIds :
       /\ \A u \in UserUpdates :
            Calls("updateUser", id) /\ id \in DOMAIN users
              /\ users' = updateUser(id, u).store =>
                /\ lastFound' = "found"
                /\ \A f \in DOMAIN u : users'[id][f] = u[f]
       /\ \A u \in NoteUpdates :
            Calls("updateNote", id) /\ id \in DOMAIN notes
              /\ notes' = updateNote(id, u).store =>
                /\ lastFound' = "found"
                /\ \A f \in DOMAIN u \ {"updatedAt"} : notes'[id][f] = u[f]
                /\ notes'[id].updatedAt = now
       /\ \A u \in FlashcardUpdates :
            Calls("updateFlashcard", id) /\ id \in DOMAIN flashcards
              /\ flashcards' = updateFlashcard(id, u).store =>
                /\ lastFound' = "found"
                /\ \A f \in DOMAIN u : flashcards'[id][f] = u[f]]_vars

\* Several updates have reached one flashcard and one note: the card holds
\* the difficulty of one update and the repetitions of another, the note
\* the title of one update and the id of another.
C15_Witness ==
  /\ lastFound = "found"
  /\ \E k \in DOMAIN flashcards :
       /\ flashcards[k].setId = "id2" /\ flashcards[k].difficulty = "expert"
       /\ flashcards[k].repetitions = 1
       /\ k \notin DOMAIN created
  /\ \E n \in DOMAIN notes :
       /\ lastCall = Call("updateNote", n)
       /\ notes[n].title = "final" /\ notes[n].id = NoSuchId

\* ---------------------------------------------------------------- C16
\* C16: the difficulty of every stored flashcard is one of easy, medium,
\* hard.
C16_DifficultyInRange ==
  \A k \in DOMAIN flashcards : flashcards[k].difficulty \in Difficulty

\* ---------------------------------------------------------------- C17
\* C17: no step changes the setId of a stored flashcard.
C17_SetIdImmutable ==
  [][\A k \in DOMAIN flashcards :
       k \in DOMAIN flashcards' => flashcards'[k].setId = flashcards[k].setId]_vars

\* ---------------------------------------------------------------- C18
\* The step stores, under the id randomUUID issues, the record `create`
\* builds for a payload: `store` is the collection's map before the step,
\* `made` the result of the create.
Creates(store, made) == uuid' = uuid + 1 /\ made.store # store

\* C18: a flashcard created without difficulty, repetitions,
\* easinessFactor, lastReviewed or nextReview is stored with medium, 0,
\* 250, null and null in their place, and a flashcard set created without
\* cardCount is stored with cardCount 0.
C18_CreateFillsDefaults ==
  [][/\ \A p \in InsertFlashcards :
          Creates(flashcards, createFlashcard(p))
            /\ flashcards' = createFlashcard(p).store =>
              LET card == flashcards'[randomUUID] IN
                /\ "difficulty" \notin DOMAIN p => card.difficulty = "medium"
                /\ "repetitions" \notin DOMAIN p => card.repetitions = 0
                /\ "easinessFactor" \notin DOMAIN p => card.easinessFactor = 250
                /\ "lastReviewed" \notin DOMAIN p => card.lastReviewed = nullInt
                /\ "nextReview" \notin DOMAIN p => card.nextReview = nullInt
     /\ \A p \in InsertFlashcardSets :
          Creates(flashcardSets, createFlashcardSet(p))
            /\ flashcardSets' = createFlashcardSet(p).store =>
              ("cardCount" \notin DOMAIN p =>
                 flashcardSets'[randomUUID].cardCount = 0)]_vars

\* A set created without cardCount and a card created with setId, question
\* and answer only are stored with the defaults.
C18_Witness ==
  /\ DOMAIN created = {"id1", "id2"}
  /\ created["id1"].coll = "flashcardSets"
  /\ flashcardSets["id1"] = created["id1"].record
  /\ flashcardSets["id1"].cardCount = 0
  /\ flashcardSets["id1"].documentId = null
  /\ created["id2"].coll = "flashcards"
  /\ flashcards["id2"] =
       [id |-> "id2", setId |-> "id1", question |-> "q", answer |-> "a",
        difficulty |-> "medium", repetitions |-> 0, easinessFactor |-> 250,
        lastReviewed |-> nullInt, nextReview |-> nullInt]

\* ---------------------------------------------------------------- C19
\* C19: the record a create stores holds every field of the payload with
\* the payload's value, a 0 or an empty string included.
C19_CreateKeepsSupplied ==
  [][/\ \A p \in InsertUsers :
          Creates(users, createUser(p)) /\ users' = createUser(p).store =>
            \A f \in DOMAIN p : users'[randomUUID][f] = p[f]
     /\ \A p \in InsertDocuments :
          Creates(documents, createDocument(p))
            /\ documents' = createDocument(p).store =>
              \A f \in DOMAIN p : documents'[randomUUID][f] = p[f]
     /\ \A p \in InsertNotes :
          Creates(notes, createNote(p)) /\ notes' = createNote(p).store =>
            \A f \in DOMAIN p : notes'[randomUUID][f] = p[f]
     /\ \A p \in InsertFlashcardSets :
          Creates(flashcardSets, createFlashcardSet(p))
            /\ flashcardSets' = createFlashcardSet(p).store =>
              \A f \in DOMAIN p : flashcardSets'[randomUUID][f] = p[f]
     /\ \A p \in InsertFlashcards :
          Creates(flashcards, createFlashcard(p))
            /\ flashcards' = createFlashcard(p).store =>
              \A f \in DOMAIN p : flashcards'[randomUUID][f] = p[f]
     /\ \A p \in InsertQuizzes :
          Creates(quizzes, createQuiz(p)) /\ quizzes' = createQuiz(p).store =>
            \A f \in DOMAIN p : quizzes'[randomUUID][f] = p[f]
     /\ \A p \in InsertQuizAttempts :
          Creates(quizAttempts, createQuizAttempt(p))
            /\ quizAttempts' = createQuizAttempt(p).store =>
              \A f \in DOMAIN p : quizAttempts'[randomUUID][f] = p[f]
     /\ \A p \in InsertChatMessages :
          Creates(chatMessages, createChatMessage(p))
            /\ chatMessages' = createChatMessage(p).store =>
              \A f \in DOMAIN p : chatMessages'[randomUUID][f] = p[f]]_vars

\* ---------------------------------------------------------------- C20
\* C20: a review applied to a card leaves it Reviewed (lastReviewed set),
\* and no step takes a Reviewed card back to Unseen (lastReviewed null).
C20_UnseenToReviewed ==
  [][\A k \in DOMAIN flashcards :
       /\ \A m \in inflight :
            Handled(m) /\ m.id = k => flashcards'[k].lastReviewed # nullInt
       /\ flashcards[k].lastReviewed # nullInt =>
            k \in DOMAIN flashcards' /\ flashcards'[k].lastReviewed # nullInt]_vars

\* ---------------------------------------------------------------- C21
\* The types IStorage has no delete method for.
AppendOnly ==
  {"users", "flashcardSets", "flashcards", "quizzes", "quizAttempts",
   "chatMessages"}

\* C21: every user, flashcard set, flashcard, quiz, quiz attempt and chat
\* message ever created is still stored under its id (and the get method,
\* where the type has one, finds it), so the number stored of each type is
\* the number created and never decreases.
C21_AppendOnlyTypes ==
  /\ \A e \in Range(issued) :
       e.coll \in AppendOnly => e.id \in DOMAIN Collection(e.coll)
  /\ \A c \in AppendOnly :
       Cardinality(DOMAIN Collection(c)) =
         Cardinality({i \in DOMAIN issued : issued[i].coll = c})
  /\ \A e \in Range(issued) :
       /\ e.coll = "users" => getUser(e.id).found
       /\ e.coll = "flashcardSets" => getFlashcardSet(e.id).found
       /\ e.coll = "quizzes" => getQuiz(e.id).found

\* A user is stored although the last call was a delete naming the user's
\* id.
C21_Witness ==
  /\ \E i \in DOMAIN issued :
       /\ issued[i].coll = "users"
       /\ lastCall = Call("deleteDocument", issued[i].id)
       /\ getUser(issued[i].id).found
  /\ \E j \in DOMAIN issued :
       issued[j].coll = "documents" /\ issued[j].id \notin DOMAIN documents

\* ---------------------------------------------------------------- C22
\* The fields a review writes.
ReviewFields == {"difficulty", "lastReviewed", "nextReview", "repetitions"}

\* C22: a review applied to a card writes difficulty, lastReviewed,
\* nextReview and repetitions and nothing else of that card or of any other
\* card; difficulty becomes the rating, and nextReview lies the rating's
\* interval after the rating instant whatever the card's easinessFactor.
C22_ReviewWritesFourFields ==
  [][\A m \in inflight :
       Handled(m) /\ m.id \in DOMAIN flashcards =>
         /\ DOMAIN m.updates = ReviewFields
         /\ RestUnchanged(flashcards, flashcards', m.id)
         /\ ChangesOnly(flashcards[m.id], flashcards'[m.id], ReviewFields)
         /\ flashcards'[m.id].difficulty = m.rating
         /\ flashcards'[m.id].nextReview - m.at =
              IntervalHalfDays(m.rating) * 43200000]_vars

\* A card whose easinessFactor another client set to 500 was then rated
\* easy and is due three days later, next to a card nothing has touched.
C22_Witness ==
  \E k \in DOMAIN flashcards, k2 \in DOMAIN flashcards :
    /\ k # k2 /\ k2 \in DOMAIN created
    /\ k \in DOMAIN reviewsApplied
    /\ flashcards[k].easinessFactor = 500
    /\ flashcards[k].difficulty = "easy"
    /\ flashcards[k].lastReviewed = HourMs
    /\ flashcards[k].nextReview = HourMs + 259200000
    /\ \A s \in Sessions : \A c \in Range(currentCards[s]) :
         \A i \in DOMAIN c : c[i].easinessFactor = 500 \/ c[i].id # k

C24_NoteUpdateStampsNow ==
  /\ \A id \in DOMAIN notes : \A u \in NoteUpdates :
       LET updatedNote == updateNote(id, u).store[id]
       IN  /\ updatedNote.updatedAt = now
           /\ updateNote(id, u).ret = Found(updatedNote)
           /\ \A f \in DOMAIN notes[id] \ (DOMAIN u \cup {"updatedAt"}) :
                f \in DOMAIN updatedNote /\ updatedNote[f] = notes[id][f]
  /\ \A id \in DOMAIN users : \A u \in UserUpdates :
       LET updatedUser == updateUser(id, u).store[id]
       IN  /\ DOMAIN updatedUser = DOMAIN users[id] \cup DOMAIN u
           /\ \A f \in DOMAIN users[id] \ DOMAIN u : updatedUser[f] = users[id][f]
  /\ \A id \in DOMAIN flashcards : \A u \in FlashcardUpdates :
       LET updatedCard == updateFlashcard(id, u).store[id]
       IN  /\ DOMAIN updatedCard = DOMAIN flashcards[id] \cup DOMAIN u
           /\ \A f \in DOMAIN flashcards[id] \ DOMAIN u :
                updatedCard[f] = flashcards[id][f]

\* A note created at time 0 was updated an hour later with a payload
\* carrying updatedAt = 1: it holds the payload's title, the time of the
\* update, and the createdAt it was created with.
C24_Witness ==
  /\ lastFound = "found"
  /\ \E k \in DOMAIN notes :
       /\ lastCall = Call("updateNote", k)
       /\ notes[k].title = "final"
       /\ notes[k].createdAt = 0
       /\ now = HourMs /\ notes[k].updatedAt = HourMs
       /\ notes[k].id = k

\* ---------------------------------------------------------------- C25
\* Record `r` holds every field of payload `u` but those in `but`.
HoldsFields(r, u, but) ==
  \A f \in DOMAIN u \ but : f \in DOMAIN r /\ r[f] = u[f]
\* Payloads `u1` and `u2` have no field in common.
Disjoint(u1, u2) == DOMAIN u1 \cap DOMAIN u2 = {}

\* C25 as stated: an update is one step of the store, and when two updates
\* of one stored id carry disjoint fields, then in either order the record
\* stored after the second holds the fields of both, for users, notes and
\* flashcards alike.
C25_DisjointUpdatesBothKept ==
  [][\A id \in CallIds :
       /\ Calls("updateUser", id) /\ id \in DOMAIN users =>
            \A u1 \in UserUpdates, u2 \in UserUpdates :
              users' = updateUser(id, u1).store /\ Disjoint(u1, u2) =>
                /\ HoldsFields(updateUser(id, u2)'.store[id], u1, {})
                /\ HoldsFields(updateUser(id, u2)'.store[id], u2, {})
       /\ Calls("updateNote", id) /\ id \in DOMAIN notes =>
            \A u1 \in NoteUpdates, u2 \in NoteUpdates :
              notes' = updateNote(id, u1).store /\ Disjoint(u1, u2) =>
                /\ HoldsFields(updateNote(id, u2)'.store[id], u1, {})
                /\ HoldsFields(updateNote(id, u2)'.store[id], u2, {})
       /\ Calls("updateFlashcard", id) /\ id \in DOMAIN flashcards =>
            \A u1 \in FlashcardUpdates, u2 \in FlashcardUpdates :
              flashcards' = updateFlashcard(id, u1).store /\ Disjoint(u1, u2) =>
                /\ HoldsFields(updateFlashcard(id, u2)'.store[id], u1, {})
                /\ HoldsFields(updateFlashcard(id, u2)'.store[id], u2, {})]_vars

\* C25, amended: the same, but for a note's updatedAt, which after the
\* second update holds the time of that update whichever payload carried
\* an updatedAt.
C25_DisjointUpdatesKeptButStamp ==
  [][\A id \in CallIds :
       /\ Calls("updateUser", id) /\ id \in DOMAIN users =>
            \A u1 \in UserUpdates, u2 \in UserUpdates :
              users' = updateUser(id, u1).store /\ Disjoint(u1, u2) =>
                /\ HoldsFields(updateUser(id, u2)'.store[id], u1, {})
                /\ HoldsFields(updateUser(id, u2)'.store[id], u2, {})
       /\ Calls("updateNote", id) /\ id \in DOMAIN notes =>
            \A u1 \in NoteUpdates, u2 \in NoteUpdates :
              notes' = updateNote(id, u1).store /\ Disjoint(u1, u2) =>
                /\ HoldsFields(updateNote(id, u2)'.store[id], u1, {"updatedAt"})
                /\ HoldsFields(updateNote(id, u2)'.store[id], u2, {"updatedAt"})
                /\ updateNote(id, u2)'.store[id].updatedAt = now'
       /\ Calls("updateFlashcard", id) /\ id \in DOMAIN flashcards =>
            \A u1 \in FlashcardUpdates, u2 \in FlashcardUpdates :
              flashcards' = updateFlashcard(id, u1).store /\ Disjoint(u1, u2) =>
                /\ HoldsFields(updateFlashcard(id, u2)'.store[id], u1, {})
                /\ HoldsFields(updateFlashcard(id, u2)'.store[id], u2, {})]_vars

\* Two updates with disjoint fields have reached one flashcard, the second
\* just now: it holds the repetitions of one, the difficulty of the other
\* and the setId it was created with.
C25_Witness ==
  /\ lastFound = "found"
  /\ \E k \in DOMAIN flashcards :
       /\ lastCall = Call("updateFlashcard", k)
       /\ flashcards[k].repetitions = 1
       /\ flashcards[k].difficulty = "expert"
       /\ flashcards[k].setId = "id1"
       /\ flashcards[k].id = k

\* ---------------------------------------------------------------- C26
\* The create that returned `a` precedes the one that returned `b` in `seq`.
IssuedBefore(seq, a, b) ==
  \E i \in DOMAIN seq, j \in DOMAIN seq : i < j /\ seq[i] = a /\ seq[j] = b

\* C26: every flashcard a generation request stores carries the id of a
\* flashcard set that was created before it and is stored under that id,
\* and every stored flashcard set stays stored, under its id, in every
\* later state.
C26_GeneratedCardsNameStoredSet ==
  [][/\ \A k \in DOMAIN flashcards' \ DOMAIN flashcards :
          /\ flashcards'[k].setId \in DOMAIN flashcardSets'
          /\ flashcardSets'[flashcards'[k].setId].id = flashcards'[k].setId
          /\ IssuedBefore(issued',
               [coll |-> "flashcardSets", id |-> flashcards'[k].setId],
               [coll |-> "flashcards", id |-> k])
     /\ \A s \in DOMAIN flashcardSets :
          s \in DOMAIN flashcardSets' /\ flashcardSets'[s] = flashcardSets[s]]_vars

\* A generated card names a stored set, and a review of the card has been
\* applied since.
C26_Witness ==
  \E k \in DOMAIN flashcards :
    /\ k \in DOMAIN reviewsApplied
    /\ flashcards[k].setId \in DOMAIN flashcardSets
    /\ flashcardSets[flashcards[k].setId].cardCount = 1

\* ---------------------------------------------------------------- C27
\* C27: the cardCount of every stored flashcard set equals the number of
\* stored flashcards whose setId is the set's id, after a generation
\* request that succeeded and after one that failed while creating cards.
C27_CardCountMatchesCards ==
  \A s \in DOMAIN flashcardSets :
    flashcardSets[s].cardCount =
      Cardinality({k \in DOMAIN flashcards : flashcards[k].setId = s})

\* ---------------------------------------------------------------- C29
\* C29: while a deck of n >= 1 cards is studied, the card index lies in
\* 0..n-1 and counts the ratings given, and correct <= total <= n; each
\* rating sends one review update, for the card at the index, and either
\* moves the index on by one or, being the n-th, ends the session: the
\* current set is cleared and the index and the statistics are 0 again.
C29_StudySession ==
  /\ [](StudyMode(Student) /\ Len(CardsOf(Student).value) >= 1 =>
          /\ currentCardIndex[Student] \in 0..(Len(CardsOf(Student).value) - 1)
          /\ studyStats[Student].total = currentCardIndex[Student]
          /\ studyStats[Student].correct \in 0..studyStats[Student].total
          /\ studyStats[Student].total <= Len(CardsOf(Student).value))
  /\ [][rated' = rated + 1 =>
          LET cards == CardsOf(Student).value
              i == currentCardIndex[Student]
          IN  /\ StudyMode(Student) /\ i + 1 <= Len(cards)
              /\ \E m \in inflight' \ inflight :
                   /\ inflight' = inflight \cup {m}
                   /\ m.id = cards[i + 1].id /\ m.from = Student
                   /\ DOMAIN m.updates = ReviewFields
              /\ IF i + 1 < Len(cards)
                 THEN /\ currentCardIndex'[Student] = i + 1
                      /\ currentSet'[Student] = currentSet[Student]
                      /\ studyStats'[Student].total = studyStats[Student].total + 1
                 ELSE /\ studyStats[Student].total + 1 = Len(cards)
                      /\ currentSet'[Student] = null
                      /\ currentCardIndex'[Student] = 0
                      /\ studyStats'[Student] = [correct |-> 0, total |-> 0]]_vars

\* A deck of two cards was studied to its end with two ratings: each card
\* has had one review applied, no set is current, and the index and the
\* statistics are 0.
C29_Witness ==
  /\ rated = 2 /\ inflight = {}
  /\ Cardinality(DOMAIN flashcards) = 2
  /\ \A k \in DOMAIN flashcards :
       k \in DOMAIN reviewsApplied /\ reviewsApplied[k] = 1
  /\ currentSet[Student] = null
  /\ currentCardIndex[Student] = 0
  /\ studyStats[Student] = [correct |-> 0, total |-> 0]

\* ---------------------------------------------------------------- C28
\* C28: a notes, flashcard-set or quiz generation request or a chat request
\* that names a document id under which no document is stored is answered
\* 404, and the step that answers it leaves the eight collections as they
\* were and creates no record.  (A step that is no upload and no delete
\* call is the handling of a request, whose answer `answered` then holds.)
C28_AbsentDocumentAnswers404 ==
  [][\A route \in {"notes", "flashcard-sets", "quizzes", "chat"} :
       /\ UNCHANGED <<documents, lastCall, lastFound>>
       /\ answered'.route = route
       /\ answered'.documentId # ""
       /\ answered'.documentId \notin DOMAIN documents
       => /\ answered'.status = 404
          /\ UNCHANGED <<storeVars, uuid, issued>>]_vars

\* A document was uploaded, notes were generated from it, it was deleted,
\* and a chat request that then named it was answered 404.
C28_Witness ==
  \E d \in RouteIds :
    /\ [coll |-> "documents", id |-> d] \in Range(issued)
    /\ d \notin DOMAIN documents
    /\ \E n \in DOMAIN notes : notes[n].documentId = d
    /\ answered = Answer("chat", d, 404)
    /\ chatMessages = EmptyMap

\* ---------------------------------------------------------------- C30
\* Question i (from 0) of the quiz being taken has a selected answer, one
\* of its options.
Selected(i) ==
  AnswerAt(selectedAnswers, i) \in 0..(Questions[i + 1].options - 1)
\* The step finishes the quiz: the result view replaces the question view.
Finishes == showResult' /\ ~showResult

\* While a quiz of n >= 1 questions is taken, the question index lies in
\* 0..n-1 and every question before it has a selected answer; the Next
\* button moves on or finishes only when the current question has one; the
\* step that finishes the quiz, taken on the last question, finds every
\* question answered and submits one attempt, with the quiz's id, the
\* answers and n; no other step submits an attempt.
QuizNavigation ==
  /\ [](currentQuiz # null /\ ~showResult /\ Len(Questions) >= 1 =>
          /\ currentQuestionIndex \in 0..(Len(Questions) - 1)
          /\ \A i \in 0..(currentQuestionIndex - 1) : Selected(i)
          /\ Len(selectedAnswers) <= Len(Questions))
  /\ [][/\ (currentQuestionIndex' = currentQuestionIndex + 1 \/ Finishes) =>
             Selected(currentQuestionIndex)
        /\ IF Finishes
           THEN LET n == Len(Questions)
                    attempt == attempts'[Len(attempts')]
                IN  /\ currentQuestionIndex = n - 1
                    /\ \A i \in 0..(n - 1) : Selected(i)
                    /\ Len(attempts') = Len(attempts) + 1
                    /\ \A k \in 1..Len(attempts) : attempts'[k] = attempts[k]
                    /\ \E m \in posted' \ posted :
                         posted' = posted \cup {m} /\ m.body = attempt
                    /\ attempt.quizId = currentQuiz
                    /\ attempt.answers = selectedAnswers
                    /\ attempt.totalQuestions = n
           ELSE attempts' = attempts /\ posted' \subseteq posted]_vars

\* The attempt a finishing step submits has as score the integer nearest to
\* 100 * correct / n, a half rounding up, which lies in 0..100.
AttemptScoreExact ==
  [][Finishes =>
       LET n == Len(Questions)
           correct == Cardinality({i \in 0..(n - 1) :
                        AnswerAt(selectedAnswers, i) =
                          Questions[i + 1].correctAnswer})
           attempt == attempts'[Len(attempts')]
       IN  /\ attempt.score \in 0..100
           /\ 2 * (attempt.score * n - 100 * correct) \in (1 - n)..n]_vars

\* C30: in a quiz with at least one question the Next button is enabled
\* only when the current question has a selected answer, the question
\* index stays within bounds, and when the quiz is finished on its last
\* question every question has a selected answer, exactly one attempt is
\* submitted, and its score is round(100 * correct / questions), within
\* 0..100.
C30_QuizRun == QuizNavigation /\ AttemptScoreExact

====
